---- MODULE Spec2Model ----
(***************************************************************************)
(* Chlorella vulgaris synthetic-data generator.                            *)
(*                                                                         *)
(* The repository holds several revisions of the same express server.      *)
(* This module models four of them as one state machine whose variable     *)
(* `prog` says which revision is running:                                  *)
(*   "server"    src/server.js          generateAdvancedData + handler     *)
(*   "kinetic"   src/unnamed/part_000   generateAdvancedData (lines 20-363)*)
(*   "scenario"  src/unnamed/part_000   generateAdvancedScenarioData       *)
(*   "realistic" src/unnamed/part_003   generateRealisticData              *)
(*                                                                         *)
(* Real numbers are fixed-point integers.  Unless said otherwise a         *)
(* quantity x is stored as x * U with U = 10^4, and divisions truncate     *)
(* toward minus infinity.  Math.random() is a stream of values in          *)
(* 0 .. RandRes-1 (read as r / RandRes); the stream is an input, chosen    *)
(* when the process starts.                                                *)
(***************************************************************************)
EXTENDS Integers, Sequences, FiniteSets, TLC

\* ------------------------------------------------------------------------
\* Bounds of the model
\* ------------------------------------------------------------------------
MaxScenarios == 3
LongHours == 45
NumSeeds == 5
MaxDays == 2
MaxHours == 2

\* ------------------------------------------------------------------------
\* Fixed-point arithmetic
\* ------------------------------------------------------------------------
U == 10000
RandRes == 1000
Pi == 31416

Max(a, b) == IF a >= b THEN a ELSE b
Min(a, b) == IF a <= b THEN a ELSE b
Abs(a) == IF a >= 0 THEN a ELSE 0 - a

\* toFixed cutting the digits off instead of rounding
ToFixedTruncating(x, d) == x \div d

\* Number.prototype.toFixed: x has `d` sub-units per reported unit; the
\* result is the nearest reported unit, halves away from zero.
ToFixed(x, d) ==
    IF x >= 0 THEN (2 * x + d) \div (2 * d)
    ELSE 0 - ((2 * (0 - x) + d) \div (2 * d))

\* sin on [0, pi/2], x in 1e-4 rad, result in 1e-4 (Taylor, Horner form)
SinQuarter(x) ==
    LET q == (x * x) \div U
        a == U - (q \div 72)
        b == U - (((q * a) \div U) \div 42)
        c == U - (((q * b) \div U) \div 20)
        d == U - (((q * c) \div U) \div 6)
    IN  (x * d) \div U

\* Math.sin, x >= 0 in 1e-4 rad, result in 1e-4
Sin(x) ==
    LET r == x % (2 * Pi)
        half == IF r >= Pi THEN r - Pi ELSE r
        quart == IF half > Pi \div 2 THEN Pi - half ELSE half
        v == SinQuarter(quart)
    IN  IF r >= Pi THEN 0 - v ELSE v

\* e^(-n) for whole n, in 1e-4
ExpNegWhole(n) ==
    CASE n = 0 -> 10000 [] n = 1 -> 3679 [] n = 2 -> 1353 [] n = 3 -> 498
      [] n = 4 -> 183 [] n = 5 -> 67 [] n = 6 -> 25 [] n = 7 -> 9
      [] n = 8 -> 3 [] n = 9 -> 1 [] OTHER -> 0

\* Math.exp(-z), z >= 0 in 1e-4, result in 1e-4
ExpNeg(z) ==
    LET n == z \div U
        f == z % U
        a == U - (f \div 7)
        b == U - (((f * a) \div U) \div 6)
        c == U - (((f * b) \div U) \div 5)
        d == U - (((f * c) \div U) \div 4)
        e == U - (((f * d) \div U) \div 3)
        g == U - (((f * e) \div U) \div 2)
        k == U - ((f * g) \div U)
    IN  (ExpNegWhole(n) * k) \div U

\* Math.exp(-Math.pow(diff / width, 2)); diff in 1e-4, width in 1e-1 units
Gauss(diff, width10) ==
    LET q == (diff * 10) \div width10
    IN  ExpNeg((q * q) \div U)

\* ------------------------------------------------------------------------
\* Math.random(): an affine congruential stream over 0 .. RandRes-1.
\* mul = 1, inc = 0 is a constant stream (every draw the same value).
\* ------------------------------------------------------------------------
Advance(g) == [g EXCEPT !.x = (g.mul * g.x + g.inc) % RandRes]

RECURSIVE AdvanceN(_, _)
AdvanceN(g, n) == IF n = 0 THEN g ELSE AdvanceN(Advance(g), n - 1)

\* value of the k-th next call of Math.random() (k = 0 is the next call)
Draw(g, k) == AdvanceN(g, k).x

ConstStreams == {[x |-> v, mul |-> 1, inc |-> 0] : v \in {0, 500, 999}}
SeededStreams == {[x |-> (389 * n + 17) % RandRes, mul |-> 421, inc |-> 7] : n \in 1..NumSeeds}
Streams == ConstStreams \cup SeededStreams

\* ------------------------------------------------------------------------
\* server.js: generateAdvancedData
\* ------------------------------------------------------------------------
\* tempRange in degrees, pHRange in 1e-1, stressProb in 1e-1, noiseLevel in 1e-5
variabilityConfig ==
    [low     |-> [tempRange |-> 3,  pHRange |-> 6,  stressProb |-> 1, noiseLevel |-> 1000],
     medium  |-> [tempRange |-> 10, pHRange |-> 12, stressProb |-> 2, noiseLevel |-> 3000],
     high    |-> [tempRange |-> 15, pHRange |-> 18, stressProb |-> 4, noiseLevel |-> 5000],
     extreme |-> [tempRange |-> 20, pHRange |-> 25, stressProb |-> 6, noiseLevel |-> 8000]]

\* a validVariability that lets an unknown level through
validVariabilityLoose == {"low", "medium", "high", "extreme", "other"}
validVariability == {"low", "medium", "high", "extreme"}

\* variabilityConfig[variabilityLevel] || variabilityConfig.medium
ConfigOf(level) ==
    IF level \in DOMAIN variabilityConfig THEN variabilityConfig[level]
    ELSE variabilityConfig.medium

\* the second draw of stressCondition is made only when the first succeeds
Stressed(config, g) == Draw(g, 6) > RandRes - config.stressProb * 100
StressDraws(config, g) == IF Stressed(config, g) THEN 2 ELSE 1

\* scenarioParams; maxPAR and Ks_light in 1e-1, muMax and noiseLevel in 1e-5,
\* the rest in 1e-4
ScenarioParams(config, g) ==
    LET o == StressDraws(config, g) - 1
    IN  [baseTemp       |-> 150000 + Draw(g, 0) * config.tempRange * 10,
         basePh         |-> 65000 + Draw(g, 1) * config.pHRange,
         maxPAR         |-> 2000 + Draw(g, 2) * 8,
         initialBiomass |-> 200 + Draw(g, 3) * 5,
         nutrientLevel  |-> 3000 + Draw(g, 4) * 7,
         lightRegime    |-> IF Draw(g, 5) > 300 THEN "continuous" ELSE "cyclic",
         stressCondition |-> IF Stressed(config, g)
                             THEN (IF Draw(g, 7) > 500 THEN "high_temp" ELSE "low_pH")
                             ELSE "normal",
         muMax          |-> 4000 + Draw(g, 7 + o) * 8,
         Ks_light       |-> 1000 + Draw(g, 8 + o) * 4,
         Ks_nutrient    |-> 200 + (Draw(g, 9 + o) * 3) \div 2,
         Ki_biomass     |-> 20000 + Draw(g, 10 + o) * 40,
         tempOptimal    |-> 200000 + Draw(g, 11 + o) * 100,
         pHOptimal      |-> 68000 + Draw(g, 12 + o) * 8,
         noiseLevel     |-> config.noiseLevel
                            + (Draw(g, 13 + o) * config.noiseLevel) \div RandRes]
ScenarioParamDraws(config, g) == 13 + StressDraws(config, g)

\* culture state at the start of a scenario; co2Level in 1e-6,
\* cellConcentration in cells/mL
InitialCulture(p, g) ==
    [biomass           |-> p.initialBiomass,
     cellConcentration |-> (p.initialBiomass * (1500 + Draw(g, 0))) \div 10,
     currentpH         |-> p.basePh,
     currentTemp       |-> p.baseTemp,
     nutrients         |-> p.nutrientLevel,
     oxygenLevel       |-> 60000 + Draw(g, 1) * 40,
     co2Level          |-> 20000 + Draw(g, 2) * 60,
     totalProductivity |-> 0,
     cumulativeBiomass |-> p.initialBiomass]
InitialCultureDraws == 3

\* daylight test off by one hour at dusk
DaylightUntil19(h) == (h % 24) >= 6 /\ (h % 24) <= 19

\* the light cycle draws a jitter value except at night
Daylight(h) == (h % 24) >= 6 /\ (h % 24) <= 18
LightDraws(p, h) == IF p.lightRegime = "continuous" \/ Daylight(h) THEN 1 ELSE 0

\* lightIntensity in 1e-1 umol/m2/s
LightIntensity(p, h, r) ==
    IF p.lightRegime = "continuous"
    THEN (p.maxPAR * (9500 + r)) \div 10000
    ELSE IF Daylight(h)
         THEN (((p.maxPAR * Sin(((h % 24) - 6) * 2618)) \div U) * (8500 + 3 * r)) \div 10000
         ELSE 0

\* lightIntensity > 0 as the doubles decide it: Math.sin(0) is 0 at 06:00,
\* Math.sin(Math.PI) is a positive 1.2e-16 at 18:00
LightPositive(p, h) ==
    \/ p.lightRegime = "continuous"
    \/ (h % 24) >= 7 /\ (h % 24) <= 18

TempVariation(p, h, r) ==
    IF p.stressCondition = "high_temp"
    THEN 50000 + 8 * Sin(h * 200) + r * 20
    ELSE 2 * Sin(h * 100) + (10 * r - 5000)

Clamp(lo, hi, x) == Max(lo, Min(hi, x))

\* temperature without the clamp to [15, 40]
CurrentTempUnclamped(p, h, r) ==
    p.baseTemp + TempVariation(p, h, r) + Sin((h % 24) * 2618)

CurrentTemp(p, h, r) ==
    Clamp(150000, 400000, p.baseTemp + TempVariation(p, h, r) + Sin((h % 24) * 2618))

PHDrift(p, h, r) ==
    IF p.stressCondition = "low_pH"
    THEN (0 - 5000) + (3 * Sin(h * 150)) \div 10 + r
    ELSE (15 * Sin(h * 80)) \div 100 + (5 * r - 2500) \div 10

CurrentPH(p, biomass, h, r) ==
    Clamp(60000, 90000,
          p.basePh + PHDrift(p, h, r) + (5 * (biomass - p.initialBiomass)) \div 100)

NutrientUptake(nutrients, biomass) ==
    (((((nutrients * U) \div (nutrients + 500)) * biomass) \div U) * 8) \div 1000

Nutrients(nutrients, biomass) == Max(500, nutrients - NutrientUptake(nutrients, biomass))

OxygenLevel(oxygenLevel, biomass, lit) ==
    LET net == IF lit THEN 30 * biomass - 8 * biomass ELSE 0 - 8 * biomass
    IN  Clamp(20000, 120000, oxygenLevel + (2 * net) \div 100000)

Co2Level(co2Level, biomass, lit, r) ==
    LET co2Consumption == IF lit THEN (8 * biomass) \div 100 ELSE 0
    IN  Clamp(10000, 100000, co2Level - co2Consumption + 500 + (r - 500) \div 5)

\* growth limitation factors, each in 1e-4
LightEffect(p, lightIntensity) == (lightIntensity * U) \div (lightIntensity + p.Ks_light)

TempEffect(p, currentTemp) ==
    IF currentTemp >= 100000 /\ currentTemp <= 450000
    THEN Gauss(Abs(currentTemp - p.tempOptimal), 60)
    ELSE 100

PHEffect(p, currentpH) ==
    IF currentpH >= 55000 /\ currentpH <= 95000
    THEN Gauss(Abs(currentpH - p.pHOptimal), 8)
    ELSE 100

NutrientEffect(p, nutrients) == (nutrients * U) \div (nutrients + p.Ks_nutrient)

DensityInhibition(p, biomass) == (p.Ki_biomass * U) \div (p.Ki_biomass + biomass)

OxygenEffect(oxygenLevel) ==
    IF oxygenLevel > 30000 THEN Min(U, (oxygenLevel * U) \div 60000)
    ELSE (oxygenLevel * U) \div 30000

Co2Effect(co2Level) == Min(U, (co2Level * U) \div 30000)

Times(x, effect) == (x * effect) \div U

\* mu in 1e-5 per hour
Mu(p, lightEffect, tempEffect, pHEffect, nutrientEffect, densityInhibition, oxygenEffect, co2Effect) ==
    Times(Times(Times(Times(Times(Times(Times(p.muMax, lightEffect), tempEffect),
        pHEffect), nutrientEffect), densityInhibition), oxygenEffect), co2Effect)

BiologicalNoise(p, r) == ((r - 500) * p.noiseLevel) \div RandRes

\* growth rate without the floor at 0
ActualGrowthRateUnclamped(mu, biologicalNoise) == mu + biologicalNoise

ActualGrowthRate(mu, biologicalNoise) == Max(0, mu + biologicalNoise)

\* growth without the cap at the carrying capacity
GrowBiomassUncapped(p, biomass, actualGrowthRate) ==
    biomass + (actualGrowthRate * biomass) \div 100000

\* growth applied once before the record and once more for it
GrowBiomassCompounded(p, biomass, actualGrowthRate) ==
    Min(GrowBiomassUncapped(p, GrowBiomassUncapped(p, biomass, actualGrowthRate), actualGrowthRate), p.Ki_biomass)
\* biomass after the hour's growth
GrowBiomass(p, biomass, actualGrowthRate) ==
    Min(biomass + (actualGrowthRate * biomass) \div 100000, p.Ki_biomass)

\* g/L/day in 1e-4
InstantProductivity(biomass, actualGrowthRate) ==
    ((((biomass * actualGrowthRate) \div 1000) * 24) \div 100)

CellConcentration(biomass, r) ==
    (biomass * (1500 + (biomass * 500) \div U + (r * 300) \div RandRes)) \div 10

ProteinContent(nutrientEffect, r) == 350000 + 15 * nutrientEffect + 50 * r

LipidContent(nutrientEffect, r) == Max(50000, 200000 - 10 * nutrientEffect + 50 * r)

GrowthPhase(p, biomass, actualGrowthRate) ==
    IF actualGrowthRate < 500 THEN "decline"
    ELSE IF 10 * biomass > 7 * p.Ki_biomass THEN "stationary"
    ELSE IF 10 * biomass > 15 * p.initialBiomass THEN "exponential"
    ELSE "lag"

\* A division of the iteration whose divisor is not a literal: whether the
\* iteration evaluates it, and its divisor
Division(evaluated, divisor) == [evaluated |-> evaluated, divisor |-> divisor]

\* lightIntensity as a divisor: a positive double below the resolution of the
\* model (Math.sin(Math.PI) at 18:00) stays positive
LightDivisor(lightIntensity, lit) == IF lit THEN Max(1, lightIntensity) ELSE 0

\* actualGrowthRate / (lightIntensity / 1000) without the test of lightIntensity
PhotosyntheticEfficiencyUnguarded(lightIntensity, lit) ==
    Division(TRUE, LightDivisor(lightIntensity, lit))
\* lightIntensity > 0 ? actualGrowthRate / (lightIntensity / 1000) : 0
PhotosyntheticEfficiency(lightIntensity, lit) ==
    Division(lit, LightDivisor(lightIntensity, lit))

\* the divisions of one iteration of the hour loop; c is the culture before
\* the iteration, nutrients and biomass are the updated values
Divisions(p, c, h, lightIntensity, lit, nutrients, biomass) ==
    [nutrientUptake           |-> Division(TRUE, c.nutrients + 500),
     lightEffect              |-> Division(TRUE, lightIntensity + p.Ks_light),
     nutrientEffect           |-> Division(TRUE, nutrients + p.Ks_nutrient),
     densityInhibition        |-> Division(TRUE, p.Ki_biomass + c.biomass),
     photosyntheticEfficiency |-> PhotosyntheticEfficiency(lightIntensity, lit),
     specificLightUptake      |-> Division(lit, biomass),
     Average_Productivity     |-> Division(TRUE, h + 1),
     Light_Use_Efficiency     |-> Division(TRUE, Max(10, LightDivisor(lightIntensity, lit)))]

\* Time_h taken from the hour of the day
TimeOfDay(h) == (h % 24) * 100

\* Time_h: h, in 1e-2 hours
TimeStamp(h) == h * 100

\* One iteration of the hour loop: the culture state after hour h and the
\* dataPoint pushed for it.  g is the stream before the iteration.
HourStep(p, c, sc, h, g) ==
    LET o == LightDraws(p, h)
        lightIntensity == LightIntensity(p, h, Draw(g, 0))
        lit == LightPositive(p, h)
        currentTemp == CurrentTemp(p, h, Draw(g, o))
        currentpH == CurrentPH(p, c.biomass, h, Draw(g, o + 1))
        nutrientUptake == NutrientUptake(c.nutrients, c.biomass)
        nutrients == Nutrients(c.nutrients, c.biomass)
        oxygenLevel == OxygenLevel(c.oxygenLevel, c.biomass, lit)
        co2Level == Co2Level(c.co2Level, c.biomass, lit, Draw(g, o + 2))
        lightEffect == LightEffect(p, lightIntensity)
        tempEffect == TempEffect(p, currentTemp)
        pHEffect == PHEffect(p, currentpH)
        nutrientEffect == NutrientEffect(p, nutrients)
        densityInhibition == DensityInhibition(p, c.biomass)
        mu == Mu(p, lightEffect, tempEffect, pHEffect, nutrientEffect,
                 densityInhibition, OxygenEffect(oxygenLevel), Co2Effect(co2Level))
        biologicalNoise == BiologicalNoise(p, Draw(g, o + 3))
        actualGrowthRate == ActualGrowthRate(mu, biologicalNoise)
        biomass == GrowBiomass(p, c.biomass, actualGrowthRate)
        cellConcentration == CellConcentration(biomass, Draw(g, o + 4))
        instantProductivity == InstantProductivity(biomass, actualGrowthRate)
        totalProductivity == c.totalProductivity + instantProductivity
        proteinContent == ProteinContent(nutrientEffect, Draw(g, o + 7))
        lipidContent == LipidContent(nutrientEffect, Draw(g, o + 8))
    IN  [culture |->
            [biomass           |-> biomass,
             cellConcentration |-> cellConcentration,
             currentpH         |-> currentpH,
             currentTemp       |-> currentTemp,
             nutrients         |-> nutrients,
             oxygenLevel       |-> oxygenLevel,
             co2Level          |-> co2Level,
             totalProductivity |-> totalProductivity,
             cumulativeBiomass |-> c.cumulativeBiomass + biomass],
         lightIntensity |-> lightIntensity,
         actualGrowthRate |-> actualGrowthRate,
         mu |-> mu,
         divisions |-> Divisions(p, c, h, lightIntensity, lit, nutrients, biomass),
         dataPoint |->
            [Scenario |-> sc,
             Time_h |-> TimeStamp(h),
             Growth_Phase |-> GrowthPhase(p, biomass, actualGrowthRate),
             pH |-> ToFixed(currentpH, 10),
             Temperature_C |-> ToFixed(currentTemp, 100),
             PAR_umol_m2_s |-> ToFixed(lightIntensity, 1),
             Dissolved_O2_mg_L |-> ToFixed(oxygenLevel, 100),
             CO2_percent |-> ToFixed(co2Level, 100),
             Growth_Rate_mu_h |-> ToFixed(actualGrowthRate, 1),
             Biomass_g_L |-> ToFixed(biomass, 1),
             Cell_Concentration_cells_mL |-> ToFixed(cellConcentration, 1),
             Nutrients_g_L |-> ToFixed(nutrients, 1),
             Instantaneous_Productivity_g_L_d |-> ToFixed(instantProductivity, 1),
             Cumulative_Productivity |-> ToFixed(totalProductivity, 10),
             Protein_Content_percent |-> ToFixed(proteinContent, 1000),
             Lipid_Content_percent |-> ToFixed(lipidContent, 1000),
             Carbohydrate_Content_percent |->
                 ToFixed(100 * U - proteinContent - lipidContent, 1000),
             Light_Regime |-> p.lightRegime,
             Stress_Condition |-> p.stressCondition,
             mu_Max_h |-> ToFixed(p.muMax, 10)]]
\* Math.random() calls of one iteration: light jitter (by day), temperature,
\* pH, CO2, biological noise, cells, optical density, chlorophyll, protein,
\* lipid
HourStepDraws(p, h) == LightDraws(p, h) + 9

\* ------------------------------------------------------------------------
\* IEEE-754 doubles: Math.floor(n * c) for a decimal literal c
\* ------------------------------------------------------------------------
\* The double nearest to num/den is num/den - (defNum/defDen) * 2^(exp-52),
\* where 2^exp <= num/den < 2^(exp+1).
Double07 == [num |-> 7, den |-> 10, defNum |-> 2, defDen |-> 5, exp |-> 0 - 1]
Double015 == [num |-> 3, den |-> 20, defNum |-> 1, defDen |-> 5, exp |-> 0 - 3]

RECURSIVE Pow2(_)
Pow2(e) == IF e <= 0 THEN 1 ELSE 2 * Pow2(e - 1)

RECURSIVE Log2Floor(_)
Log2Floor(x) == IF x <= 1 THEN 0 ELSE 1 + Log2Floor(x \div 2)

\* Math.floor(n * c) for an integer n >= 0.  When n * num / den is a whole
\* number x, the exact product lies n * (defNum/defDen) * 2^(exp-52) below x
\* and rounds to the double below x once that exceeds half the spacing of
\* the doubles below x.
FloorTimes(n, c) ==
    IF n = 0 \/ (n * c.num) % c.den # 0 THEN (n * c.num) \div c.den
    ELSE LET x == (n * c.num) \div c.den
             e == IF Pow2(Log2Floor(x)) = x THEN Log2Floor(x) - 1 ELSE Log2Floor(x)
         IN  IF n * c.defNum > c.defDen * Pow2(e - c.exp - 1) THEN x - 1 ELSE x

\* ------------------------------------------------------------------------
\* IEEE-754 doubles of the time loop `for (let t = 0; t < hours; t += timeStep)`
\* A non-negative double below 2^22 with spacing at least 2^-56 is the whole
\* number of 2^-56 it holds, written in Limbs digits of base LimbBase, lowest
\* digit first.
\* ------------------------------------------------------------------------
LimbBase == 8192
LimbBits == 13
Limbs == 6
FracBits == 56
Mantissa == 53

\* the element of a one-element set; an operand bound through a set is
\* evaluated once
The(S) == CHOOSE v \in S : TRUE

BigOfInt(n) == <<n % LimbBase, (n \div LimbBase) % LimbBase,
                 n \div (LimbBase * LimbBase), 0, 0, 0>>

RECURSIVE Carry(_, _, _)
Carry(a, i, c) ==
    IF i > Limbs THEN <<>>
    ELSE The({<<v % LimbBase>> \o Carry(a, i + 1, v \div LimbBase) : v \in {a[i] + c}})

BigAdd(x, y) ==
    The({Carry([i \in 1..Limbs |-> a[i] + b[i]], 1, 0) : a \in {x}, b \in {y}})
BigScale(x, k) == The({Carry([i \in 1..Limbs |-> a[i] * k], 1, 0) : a \in {x}})

RECURSIVE BigLessFrom(_, _, _)
BigLessFrom(a, b, i) ==
    IF i = 0 THEN FALSE
    ELSE IF a[i] # b[i] THEN a[i] < b[i]
    ELSE BigLessFrom(a, b, i - 1)
BigLess(x, y) == \E a \in {x}, b \in {y} : BigLessFrom(a, b, Limbs)

Digit(a, i) == IF i >= 1 /\ i <= Limbs THEN a[i] ELSE 0

BigShr(x, n) ==
    The({Carry([i \in 1..Limbs |->
                   Digit(a, i + q) \div p + (Digit(a, i + q + 1) % p) * (LimbBase \div p)],
               1, 0)
         : a \in {x}, q \in {n \div LimbBits}, p \in {Pow2(n % LimbBits)}})

BigShl(x, n) ==
    The({Carry([i \in 1..Limbs |->
                   (Digit(a, i - q) % (LimbBase \div p)) * p
                   + Digit(a, i - q - 1) \div (LimbBase \div p)],
               1, 0)
         : a \in {x}, q \in {n \div LimbBits}, p \in {Pow2(n % LimbBits)}})

RECURSIVE BitLengthFrom(_, _)
BitLengthFrom(a, i) ==
    IF i = 0 THEN 0
    ELSE IF a[i] # 0 THEN (i - 1) * LimbBits + Log2Floor(a[i]) + 1
    ELSE BitLengthFrom(a, i - 1)
BitLength(x) == The({BitLengthFrom(a, Limbs) : a \in {x}})

BigToInt(x) == The({a[1] + LimbBase * a[2] + LimbBase * LimbBase * a[3] : a \in {x}})

\* a between the neighbouring multiples down and down + 2^n of 2^n: the
\* nearer one, the even one when equally near
RoundBetween(a, n, down) ==
    The({IF BigLess(a, mid) THEN down
         ELSE IF a = mid THEN (IF BigShr(down, n)[1] % 2 = 0 THEN down ELSE up)
         ELSE up
         : mid \in {BigAdd(down, BigShl(BigOfInt(1), n - 1))},
           up \in {BigAdd(down, BigShl(BigOfInt(1), n))}})

RoundAt(a, n) == The({RoundBetween(a, n, down) : down \in {BigShl(BigShr(a, n), n)}})

\* round to nearest, ties to even, at Mantissa significant bits
RoundDouble(x) ==
    The({IF BitLength(a) <= Mantissa THEN a
         ELSE The({RoundAt(a, n) : n \in {BitLength(a) - Mantissa}})
         : a \in {x}})

\* t += timeStep
DoubleAdd(a, b) == RoundDouble(BigAdd(a, b))
\* the double of a whole number
DoubleOfInt(n) == BigShl(BigOfInt(n), FracBits)
\* Math.floor(t)
DoubleFloor(a) == BigToInt(BigShr(a, FracBits))
\* t.toFixed(digits) as a whole number of 10^-digits, given scale = 10^digits:
\* the nearest one, the larger of two equally near
DoubleToFixed(a, scale) ==
    BigToInt(BigShr(BigAdd(BigScale(a, scale), BigShl(BigOfInt(1), FracBits - 1)), FracBits))

\* resolutionConfig: the doubles of 0.0833, 0.25, 0.5 and 1
resolutionConfig ==
    [5min  |-> <<7589, 7693, 2437, 2726, 1, 0>>,
     15min |-> BigShl(BigOfInt(1), FracBits - 2),
     30min |-> BigShl(BigOfInt(1), FracBits - 1),
     hour  |-> DoubleOfInt(1)]

\* Array.prototype.slice(from, to) with 0 <= from, as a sequence
Slice(seq, from, to) == SubSeq(seq, from + 1, Min(to, Len(seq)))

\* data.sort(() => Math.random() - 0.5): some reordering of the array
Orders == {"same", "reversed", "rotated"}
Reorder(seq, order) ==
    IF order = "reversed" THEN [i \in 1..Len(seq) |-> seq[Len(seq) + 1 - i]]
    ELSE IF order = "rotated" /\ Len(seq) > 0 THEN Tail(seq) \o <<Head(seq)>>
    ELSE seq

\* ------------------------------------------------------------------------
\* State
\* ------------------------------------------------------------------------
VARIABLES
    prog,      \* the server revision that is running
    pc,        \* position in the handler / generator
    req,       \* the request body (after defaults)
    rng,       \* Math.random() stream
    s,         \* scenario loop variable
    h,         \* hour loop variable of generateAdvancedData / generateRealisticData
    t,         \* time loop variable of generateAdvancedScenarioData, a double
    params,    \* scenarioParams of the current scenario
    culture,   \* mutable culture state
    locals,    \* per-iteration locals of the last iteration
    point,     \* last dataPoint pushed
    data,      \* identifying columns of the dataPoints pushed so far
    split,     \* train / valid / test slices
    files,     \* CSV files written, in order
    response,  \* HTTP status sent, 0 while none
    now,       \* Date.now() of this run and of a replay of it, in ms
    csv,       \* the lines of complete_dataset.csv
    sample     \* the body answered by GET /sample-data

vars == <<prog, pc, req, rng, s, h, t, params, culture, locals, point, data,
          split, files, response, now, csv, sample>>

\* a run and a replay that read the same clock
SameClock == [run |-> 0, replay |-> 0]
\* new Date(Date.now() + h * 3600000).toISOString(), as the ms it prints
DateTime(clock, hour) == clock + hour * 3600000

NoFile == <<"ENOENT">>
NoSample == [data |-> <<>>, sampleSize |-> 0, totalRows |-> 0, headers |-> <<>>]
NoParams == [lightRegime |-> "none"]
NoCulture == [biomass |-> 0, totalProductivity |-> 0]
NoLocals == [lightIntensity |-> 0, actualGrowthRate |-> 0, mu |-> 0]
NoPoint == [Scenario |-> 0]
NoSplit == [train |-> <<>>, valid |-> <<>>, test |-> <<>>, trainSize |-> 0, validSize |-> 0]

csvFiles == <<"complete_dataset.csv", "training_data.csv", "validation_data.csv", "test_data.csv">>

\* request bodies tried against server.js
ServerRequests ==
    [scenarios : {0, 101} \cup 1..MaxScenarios,
     hoursPerScenario : {23, 24, LongHours, 481},
     variabilityLevel : validVariability \cup {"other"}]

InitServer ==
    /\ prog = "server"
    /\ pc = "validate"
    /\ req \in ServerRequests
    /\ rng \in Streams
    /\ s = 0 /\ h = 0 /\ t = BigOfInt(0)
    /\ params = NoParams /\ culture = NoCulture /\ locals = NoLocals
    /\ point = NoPoint /\ data = <<>> /\ split = NoSplit
    /\ files = <<>> /\ response = 0
    /\ now = SameClock
    /\ csv = NoFile /\ sample = NoSample

\* a validation branch that answers 400 without returning from the handler
RejectWithoutReturn ==
    /\ prog = "server" /\ pc = "validate"
    /\ \/ req.scenarios < 1 \/ req.scenarios > 100
       \/ req.hoursPerScenario < 24 \/ req.hoursPerScenario > 480
       \/ req.variabilityLevel \notin validVariability
    /\ response' = 400
    /\ pc' = "scenario"
    /\ s' = 1
    /\ UNCHANGED <<prog, now, csv, sample, t, req, rng, h, params, culture, locals, point, data, split, files>>
\* server.js POST /generate-dataset: parameter validation
Reject ==
    /\ prog = "server" /\ pc = "validate"
    /\ \/ req.scenarios < 1 \/ req.scenarios > 100
       \/ req.hoursPerScenario < 24 \/ req.hoursPerScenario > 480
       \/ req.variabilityLevel \notin validVariability
    /\ response' = 400
    /\ pc' = "done"
    /\ UNCHANGED <<prog, now, csv, sample, t, req, rng, s, h, params, culture, locals, point, data, split, files>>

Accept ==
    /\ prog = "server" /\ pc = "validate"
    /\ req.scenarios >= 1 /\ req.scenarios <= 100
    /\ req.hoursPerScenario >= 24 /\ req.hoursPerScenario <= 480
    /\ req.variabilityLevel \in validVariability
    /\ pc' = "scenario"
    /\ s' = 1
    /\ UNCHANGED <<prog, now, csv, sample, t, req, rng, h, params, culture, locals, point, data, split, files, response>>

\* a scenario loop whose culture variables are declared outside the loop: only
\* the first scenario initialises them
StartScenarioKeepingCulture ==
    /\ prog = "server" /\ pc = "scenario"
    /\ s <= req.scenarios
    /\ LET config == ConfigOf(req.variabilityLevel)
           p == ScenarioParams(config, rng)
           g == AdvanceN(rng, ScenarioParamDraws(config, rng))
       IN  /\ params' = p
           /\ culture' = IF s = 1 THEN InitialCulture(p, g) ELSE culture
           /\ rng' = AdvanceN(g, InitialCultureDraws)
    /\ h' = 0
    /\ pc' = "hour"
    /\ UNCHANGED <<prog, now, csv, sample, t, req, s, locals, point, data, split, files, response>>
\* generateAdvancedData: head of the scenario loop body
StartScenario ==
    /\ prog = "server" /\ pc = "scenario"
    /\ s <= req.scenarios
    /\ LET config == ConfigOf(req.variabilityLevel)
           p == ScenarioParams(config, rng)
           g == AdvanceN(rng, ScenarioParamDraws(config, rng))
       IN  /\ params' = p
           /\ culture' = InitialCulture(p, g)
           /\ rng' = AdvanceN(g, InitialCultureDraws)
    /\ h' = 0
    /\ pc' = "hour"
    /\ UNCHANGED <<prog, now, csv, sample, t, req, s, locals, point, data, split, files, response>>

\* generateAdvancedData: one iteration of the hour loop
Hour ==
    /\ prog = "server" /\ pc = "hour"
    /\ h < req.hoursPerScenario
    /\ LET r == HourStep(params, culture, s, h, rng)
       IN  /\ culture' = r.culture
           /\ locals' = [lightIntensity |-> r.lightIntensity,
                         actualGrowthRate |-> r.actualGrowthRate,
                         mu |-> r.mu,
                         divisions |-> r.divisions]
           /\ point' = [DateTime |-> DateTime(now.run, h)] @@ r.dataPoint
           /\ data' = Append(data, [Scenario |-> r.dataPoint.Scenario,
                                    Time_h |-> r.dataPoint.Time_h])
    /\ rng' = AdvanceN(rng, HourStepDraws(params, h))
    /\ h' = h + 1
    /\ UNCHANGED <<prog, now, csv, sample, t, pc, req, s, params, split, files, response>>

\* the hour loop ends; next scenario
EndScenario ==
    /\ prog = "server" /\ pc = "hour"
    /\ h >= req.hoursPerScenario
    /\ s' = s + 1
    /\ pc' = "scenario"
    /\ UNCHANGED <<prog, now, csv, sample, t, req, rng, h, params, culture, locals, point, data, split, files, response>>

\* generateAdvancedData returns
ReturnData ==
    /\ prog = "server" /\ pc = "scenario"
    /\ s > req.scenarios
    /\ pc' = "split"
    /\ UNCHANGED <<prog, now, csv, sample, t, req, rng, s, h, params, culture, locals, point, data, split, files, response>>

TrainSize(n) == FloorTimes(n, Double07)
ValidSize(n) == FloorTimes(n, Double015)

\* shuffle in place and slice
Split ==
    /\ prog = "server" /\ pc = "split"
    /\ \E order \in Orders :
         LET shuffled == Reorder(data, order)
             trainSize == TrainSize(Len(shuffled))
             validSize == ValidSize(Len(shuffled))
         IN  /\ data' = shuffled
             /\ split' = [train |-> Slice(shuffled, 0, trainSize),
                          valid |-> Slice(shuffled, trainSize, trainSize + validSize),
                          test |-> Slice(shuffled, trainSize + validSize, Len(shuffled)),
                          trainSize |-> trainSize,
                          validSize |-> validSize]
    /\ pc' = "mkdir"
    /\ UNCHANGED <<prog, now, csv, sample, t, req, rng, s, h, params, culture, locals, point, files, response>>

\* fs.mkdirSync(folder); a throw lands in the outer catch
Mkdir ==
    /\ prog = "server" /\ pc = "mkdir"
    /\ \/ pc' = "write" /\ UNCHANGED response
       \/ pc' = "done" /\ response' = 500
    /\ UNCHANGED <<prog, now, csv, sample, t, req, rng, s, h, params, culture, locals, point, data, split, files>>

\* one fs.writeFileSync of the try block
WriteFile ==
    /\ prog = "server" /\ pc = "write"
    /\ Len(files) < Len(csvFiles)
    /\ files' = Append(files, csvFiles[Len(files) + 1])
    /\ UNCHANGED <<prog, now, csv, sample, t, pc, req, rng, s, h, params, culture, locals, point, data, split, response>>

\* a handler that logs a failed write and carries on with the next one
WriteErrorSwallowed ==
    /\ prog = "server" /\ pc = "write"
    /\ Len(files) < Len(csvFiles)
    /\ response' = 500
    /\ files' = Append(files, "skipped")
    /\ UNCHANGED <<prog, now, csv, sample, t, pc, req, rng, s, h, params, culture, locals, point, data, split>>
\* a write throws: inner catch
WriteError ==
    /\ prog = "server" /\ pc = "write"
    /\ Len(files) < Len(csvFiles)
    /\ response' = 500
    /\ pc' = "done"
    /\ UNCHANGED <<prog, now, csv, sample, t, req, rng, s, h, params, culture, locals, point, data, split, files>>

\* res.json sent as soon as the directory exists, the writes still pending
RespondBeforeWrites ==
    /\ prog = "server" /\ pc = "write"
    /\ response' = 200
    /\ pc' = "done"
    /\ UNCHANGED <<prog, now, csv, sample, t, req, rng, s, h, params, culture, locals, point, data, split, files>>
\* stats and res.json
Respond ==
    /\ prog = "server" /\ pc = "write"
    /\ Len(files) = Len(csvFiles)
    /\ response' = 200
    /\ pc' = "done"
    /\ UNCHANGED <<prog, now, csv, sample, t, req, rng, s, h, params, culture, locals, point, data, split, files>>

\* ------------------------------------------------------------------------
\* part_003: generateRealisticData (lines 58-257)
\* ------------------------------------------------------------------------
\* CHLORELLA_PARAMS; light in 1e-1, growth in 1e-5, the rest in 1e-4
CHLORELLA_PARAMS ==
    [biomass     |-> [initial |-> 500, max |-> 40000, typical |-> 20000],
     temperature |-> [min |-> 200000, max |-> 350000, optimal |-> 280000],
     pH          |-> [min |-> 65000, max |-> 90000, optimal |-> 80000],
     light       |-> [min |-> 0, max |-> 4000, optimal |-> 1500],
     growth      |-> [min |-> 100, max |-> 5000, optimal |-> 2500]]

RealisticParams(g) ==
    [baseTemp       |-> CHLORELLA_PARAMS.temperature.optimal + (Draw(g, 0) - 500) * 80,
     basePH         |-> CHLORELLA_PARAMS.pH.optimal + (Draw(g, 1) - 500) * 15,
     maxPAR         |-> 1000 + Draw(g, 2) * 2,
     initialBiomass |-> CHLORELLA_PARAMS.biomass.initial + Draw(g, 3) \div 2,
     maxBiomass     |-> 15000 + Draw(g, 4) * 25,
     muMax          |-> 1500 + (Draw(g, 5) * 25) \div 10,
     lightRegime    |-> IF Draw(g, 6) > 500 THEN "continuous" ELSE "cyclic"]
RealisticParamDraws == 7

\* the regime test lost: a cyclic culture lit like a continuous one
RealisticLightAlwaysOn(p, hourOfDay, r) ==
    Clamp(0, CHLORELLA_PARAMS.light.max, (p.maxPAR * (900 + (2 * r) \div 10)) \div 1000)

\* 16:8 day/night cycle, then the clamp to [0, light.max]
RealisticLight(p, hourOfDay, r) ==
    LET raw == IF p.lightRegime = "continuous"
               THEN (p.maxPAR * (900 + (2 * r) \div 10)) \div 1000
               ELSE IF hourOfDay >= 6 /\ hourOfDay < 22
                    THEN LET lightCurve == Sin(((hourOfDay - 6) * 19635) \div 10)
                         IN  (((p.maxPAR * lightCurve) \div U) * (800 + (4 * r) \div 10)) \div 1000
                    ELSE 0
    IN  Clamp(0, CHLORELLA_PARAMS.light.max, raw)

RealisticLightDraws(p, hourOfDay) ==
    IF p.lightRegime = "continuous" \/ (hourOfDay >= 6 /\ hourOfDay < 22) THEN 1 ELSE 0

RealisticLightEffect(lightIntensity) ==
    IF lightIntensity > 0
    THEN LET saturationEffect == (lightIntensity * U) \div (lightIntensity + 1000)
             inhibitionEffect == IF lightIntensity > 3000
                                 THEN ExpNeg((lightIntensity - 3000) * 10)
                                 ELSE U
         IN  Times(saturationEffect, inhibitionEffect)
    ELSE 0

RealisticGrowthPhase(p, mu) ==
    IF 10 * mu > 8 * p.muMax THEN "exponential"
    ELSE IF 10 * mu > 4 * p.muMax THEN "linear"
    ELSE IF 10 * mu > p.muMax THEN "stationary"
    ELSE "decline"

\* one iteration of the hour loop of generateRealisticData
RealisticStep(p, c, sc, hr, g) ==
    LET hourOfDay == hr % 24
        temperature ==
            Clamp(CHLORELLA_PARAMS.temperature.min, CHLORELLA_PARAMS.temperature.max,
                  p.baseTemp + 2 * Sin(((hourOfDay + 18) % 24) * 2618)
                  + (10 * Draw(g, 0) - 5000))
        pH == Clamp(CHLORELLA_PARAMS.pH.min, CHLORELLA_PARAMS.pH.max,
                    p.basePH + (c.biomass - p.initialBiomass) \div 10 + (Draw(g, 1) - 500))
        lightIntensity == RealisticLight(p, hourOfDay, Draw(g, 2))
        o == RealisticLightDraws(p, hourOfDay)
        nutrients == Max(1000, c.nutrients - c.biomass \div 1000)
        tempEffect == IF temperature >= 150000 /\ temperature <= 400000
                      THEN Gauss(Abs(temperature - CHLORELLA_PARAMS.temperature.optimal), 80)
                      ELSE 0
        pHEffect == IF pH >= 60000 /\ pH <= 100000
                    THEN Gauss(Abs(pH - CHLORELLA_PARAMS.pH.optimal), 15)
                    ELSE 0
        lightEffect == RealisticLightEffect(lightIntensity)
        nutrientEffect == (nutrients * U) \div (nutrients + 1000)
        densityEffect == Max(0, ((p.maxBiomass - c.biomass) * U) \div p.maxBiomass)
        combinedEffect == Times(Times(Times(Times(lightEffect, tempEffect), pHEffect),
                                      nutrientEffect), densityEffect)
        mu == Clamp(0, CHLORELLA_PARAMS.growth.max, Times(p.muMax, combinedEffect))
        biomassIncrement == ((mu - 100) * c.biomass) \div 100000
        biomass == Min(p.maxBiomass, Max(100, c.biomass + biomassIncrement))
        proteinContent == 400000 + 15 * nutrientEffect + 50 * Draw(g, o + 3)
        lipidContent == 150000 + 10 * (U - nutrientEffect) + 50 * Draw(g, o + 4)
    IN  [culture |-> [biomass |-> biomass, nutrients |-> nutrients,
                      totalProductivity |-> 0, cultureAge |-> hr],
         lightIntensity |-> lightIntensity,
         actualGrowthRate |-> mu,
         mu |-> mu,
         dataPoint |->
            [Scenario |-> sc,
             Time_h |-> TimeStamp(hr),
             Growth_Phase |-> RealisticGrowthPhase(p, mu),
             pH |-> ToFixed(pH, 100),
             Temperature_C |-> ToFixed(temperature, 100),
             PAR_umol_m2_s |-> ToFixed(lightIntensity, 1),
             Growth_Rate_mu_h |-> ToFixed(mu, 1),
             Biomass_g_L |-> ToFixed(biomass, 1),
             Nutrients_g_L |-> ToFixed(nutrients, 10),
             Instantaneous_Productivity_g_L_d |-> ToFixed(Max(0, 24 * biomassIncrement), 1),
             Protein_Content_percent |-> ToFixed(proteinContent, 1000),
             Lipid_Content_percent |-> ToFixed(lipidContent, 1000),
             Carbohydrate_Content_percent |->
                 ToFixed(100 * U - proteinContent - lipidContent, 1000),
             Light_Regime |-> p.lightRegime]]
\* temperature, pH, light (by day), dissolved O2, protein, lipid, quality score
RealisticStepDraws(p, hr) == RealisticLightDraws(p, hr % 24) + 6

RealisticRequests == [scenarios : 1..MaxScenarios, totalDays : 1..MaxDays]

InitRealistic ==
    /\ prog = "realistic"
    /\ pc = "scenario"
    /\ req \in RealisticRequests
    /\ rng \in Streams
    /\ s = 1 /\ h = 0 /\ t = BigOfInt(0)
    /\ params = NoParams /\ culture = NoCulture /\ locals = NoLocals
    /\ point = NoPoint /\ data = <<>> /\ split = NoSplit
    /\ files = <<>> /\ response = 0
    /\ now = SameClock
    /\ csv = NoFile /\ sample = NoSample

RealisticStartScenario ==
    /\ prog = "realistic" /\ pc = "scenario"
    /\ s <= req.scenarios
    /\ params' = RealisticParams(rng)
    /\ culture' = [biomass |-> RealisticParams(rng).initialBiomass, nutrients |-> U,
                   totalProductivity |-> 0, cultureAge |-> 0]
    /\ rng' = AdvanceN(rng, RealisticParamDraws)
    /\ h' = 0
    /\ pc' = "hour"
    /\ UNCHANGED <<prog, now, csv, sample, t, req, s, locals, point, data, split, files, response>>

RealisticHour ==
    /\ prog = "realistic" /\ pc = "hour"
    /\ h < req.totalDays * 24
    /\ LET r == RealisticStep(params, culture, s, h, rng)
       IN  /\ culture' = r.culture
           /\ locals' = [lightIntensity |-> r.lightIntensity,
                         actualGrowthRate |-> r.actualGrowthRate,
                         mu |-> r.mu]
           /\ point' = r.dataPoint
           /\ data' = Append(data, [Scenario |-> r.dataPoint.Scenario,
                                    Time_h |-> r.dataPoint.Time_h])
    /\ rng' = AdvanceN(rng, RealisticStepDraws(params, h))
    /\ h' = h + 1
    /\ UNCHANGED <<prog, now, csv, sample, t, pc, req, s, params, split, files, response>>

RealisticEndScenario ==
    /\ prog = "realistic" /\ pc = "hour"
    /\ h >= req.totalDays * 24
    /\ s' = s + 1
    /\ pc' = "scenario"
    /\ UNCHANGED <<prog, now, csv, sample, t, req, rng, h, params, culture, locals, point, data, split, files, response>>

RealisticReturn ==
    /\ prog = "realistic" /\ pc = "scenario"
    /\ s > req.scenarios
    /\ pc' = "returned"
    /\ UNCHANGED <<prog, now, csv, sample, t, req, rng, s, h, params, culture, locals, point, data, split, files, response>>

\* ------------------------------------------------------------------------
\* part_000: POST /generate-dataset (lines 813-891) and
\* generateAdvancedScenarioData (lines 668-769)
\* ------------------------------------------------------------------------
\* noise in 1e-5
qualityConfig ==
    [research   |-> [noise |-> 1000, precision |-> 4],
     industrial |-> [noise |-> 3000, precision |-> 3],
     pilot      |-> [noise |-> 8000, precision |-> 2]]

\* probabilities as thousandths
stressConfig ==
    [balanced |-> [thermal |-> 150, ph |-> 150],
     low      |-> [thermal |-> 50,  ph |-> 100],
     high     |-> [thermal |-> 250, ph |-> 200],
     extreme  |-> [thermal |-> 350, ph |-> 250]]

\* resolutionConfig as whole numbers of 1e-4 hours
resolutionTenThousandths == [5min |-> 833, 15min |-> 2500, 30min |-> 5000, hour |-> 10000]

QualityOf(dataQuality) ==
    IF dataQuality \in DOMAIN qualityConfig THEN qualityConfig[dataQuality]
    ELSE qualityConfig.industrial
StressOf(stressConditions) ==
    IF stressConditions \in DOMAIN stressConfig THEN stressConfig[stressConditions]
    ELSE stressConfig.balanced
\* resolutionConfig[temporalResolution] || 1
ResolutionOf(temporalResolution) ==
    IF temporalResolution \in DOMAIN resolutionConfig
    THEN [double |-> resolutionConfig[temporalResolution],
          tenThousandths |-> resolutionTenThousandths[temporalResolution]]
    ELSE [double |-> DoubleOfInt(1), tenThousandths |-> U]

\* a request's hoursPerScenario: the JSON number in 1e-4 and its double
WholeHours(n) == [tenThousandths |-> n * U, double |-> DoubleOfInt(n)]
\* 1.666 = 20 * 0.0833
Hours1666 == [tenThousandths |-> 16660, double |-> <<4320, 6422, 7798, 5373, 26, 0>>]

\* the handler's scenarioParams; maxPAR in 1e-1, noiseLevel in 1e-5
HandlerScenarioParams(r, g) ==
    LET stress == StressOf(r.stressConditions)
        quality == QualityOf(r.dataQuality)
    IN  [baseTemp       |-> 200000 + Draw(g, 0) * 100,
         basePH         |-> 68000 + Draw(g, 1) * 12,
         maxPAR         |-> 4000 + Draw(g, 2) * 6,
         initialBiomass |-> 500 + Draw(g, 3) * 3,
         nutrientLevel  |-> 5000 + Draw(g, 4) * 5,
         lightRegime    |-> IF Draw(g, 5) > 500 THEN "continuous" ELSE "cyclic",
         stressType     |-> IF Draw(g, 6) < stress.thermal THEN "thermal"
                            ELSE IF Draw(g, 7) < stress.ph THEN "ph" ELSE "normal",
         noiseLevel     |-> quality.noise,
         precision      |-> quality.precision]
HandlerScenarioParamDraws(r, g) ==
    IF Draw(g, 6) < StressOf(r.stressConditions).thermal THEN 7 ELSE 8

\* Math.exp(x) for 0 <= x < 1, x and the result in 1e-4
Exp(x) ==
    LET a == U + x \div 5
        b == U + ((x * a) \div U) \div 4
        c == U + ((x * b) \div U) \div 3
        d == U + ((x * c) \div U) \div 2
    IN  U + (x * d) \div U

\* 10^n
RECURSIVE Pow10(_)
Pow10(n) == IF n <= 0 THEN 1 ELSE 10 * Pow10(n - 1)

\* the loop test `t < hours`
InLoop(time, hours) == BigLess(time, hours)

\* Time_h: parseFloat(t.toFixed(2)), in 1e-2 hours
ScenarioTimeStamp(time) == DoubleToFixed(time, 100)

ScenarioLight(p, hour, r) ==
    IF p.lightRegime = "continuous"
    THEN (p.maxPAR * (800 + (2 * r) \div 10)) \div 1000
    ELSE IF hour % 24 >= 6 /\ hour % 24 <= 18
         THEN (p.maxPAR * Sin(((hour % 24) - 6) * 2618)) \div U
         ELSE 0
ScenarioLightDraws(p) == IF p.lightRegime = "continuous" THEN 1 ELSE 0

\* one iteration of the loop of generateAdvancedScenarioData; c is the
\* culture state, time the double t, dt the resolution
ScenarioStep(p, c, scenarioId, time, dt, g) ==
    LET t4 == DoubleToFixed(time, U)
        hour == DoubleFloor(time)
        lightIntensity == ScenarioLight(p, hour, Draw(g, 0))
        o == ScenarioLightDraws(p)
        tempVariation == IF p.stressType = "thermal" THEN 50000 + 30 * Draw(g, o)
                         ELSE 20 * Draw(g, o) - U
        currentTemp == Clamp(150000, 400000,
                             p.baseTemp + tempVariation + 2 * Sin((t4 * 2618) \div U))
        pHDrift == IF p.stressType = "ph" THEN 2 * Draw(g, o + 1) - 5000
                   ELSE Draw(g, o + 1) - 500
        currentpH == Clamp(60000, 90000,
                           p.basePH + pHDrift + (3 * Sin(t4 \div 20)) \div 10)
        nutrients == Max(1000, c.nutrients
                               - (((c.biomass * dt.tenThousandths) \div U) \div 1000))
        lightEffect == (lightIntensity * U) \div (lightIntensity + 3000)
        tempEffect == IF currentTemp >= 150000 /\ currentTemp <= 350000
                      THEN Gauss(Abs(currentTemp - 250000), 100) ELSE 1000
        pHEffect == IF currentpH >= 65000 /\ currentpH <= 85000
                    THEN Gauss(Abs(currentpH - 72000), 15) ELSE 1000
        nutrientEffect == (nutrients * U) \div (nutrients + 1000)
        inhibitionEffect == (40000 * U) \div (40000 + c.biomass)
        mu == Times(Times(Times(Times(Times(8000, lightEffect), tempEffect), pHEffect),
                          nutrientEffect), inhibitionEffect)
        growthRate == Max(0, mu + ((Draw(g, o + 2) - 500) * p.noiseLevel) \div RandRes)
        growth == Exp(((growthRate * dt.tenThousandths) \div U) \div 10)
        currentBiomass == Min((c.biomass * growth) \div U, 50000)
        currentCellConc == (c.cellConcentration \div U) * growth
                           + ((c.cellConcentration % U) * growth) \div U
        biomassNoise == currentBiomass
                        + (currentBiomass * (((Draw(g, o + 3) - 500) * p.noiseLevel) \div RandRes))
                          \div 100000
        unit == Pow10(4 - p.precision)
    IN  [culture |-> [biomass |-> currentBiomass, cellConcentration |-> currentCellConc,
                      nutrients |-> nutrients, totalProductivity |-> 0,
                      pH |-> currentpH, temp |-> currentTemp],
         lightIntensity |-> lightIntensity,
         actualGrowthRate |-> growthRate,
         mu |-> mu,
         dataPoint |->
            [Scenario |-> scenarioId,
             Time_h |-> ScenarioTimeStamp(time),
             pH |-> ToFixed(currentpH, unit),
             Temperature_C |-> ToFixed(currentTemp, unit),
             PAR_umol_m2_s |-> lightIntensity,   \* kept in 1e-1
             Growth_Rate_h |-> ToFixed(growthRate, unit),
             Biomass_g_L |-> ToFixed(biomassNoise, unit),
             Nutrients_g_L |-> ToFixed(nutrients, unit),
             Productivity_g_L_d |-> ToFixed((24 * ((currentBiomass * growthRate) \div U)) \div 10, unit),
             Thermal_Stress |-> IF currentTemp > 320000 \/ currentTemp < 180000 THEN 1 ELSE 0,
             pH_Stress |-> IF currentpH < 65000 \/ currentpH > 85000 THEN 1 ELSE 0,
             Light_Regime |-> p.lightRegime,
             Stress_Condition |-> p.stressType]]
\* light (continuous only), temperature, pH, growth noise, biomass and cell noise
ScenarioStepDraws(p) == ScenarioLightDraws(p) + 5

\* a duration long enough for a culture to reach the biomass cap
ScenarioLongHours == 50
HoursInputs == {WholeHours(n) : n \in 0..MaxHours} \cup {Hours1666}

ScenarioRequests ==
    [scenarios : {1, 2},
     hoursPerScenario : HoursInputs,
     dataQuality : {"research", "pilot"},
     stressConditions : {"balanced", "extreme"},
     temporalResolution : DOMAIN resolutionConfig \cup {"other"}]
    \cup
    [scenarios : {1},
     hoursPerScenario : {WholeHours(ScenarioLongHours)},
     dataQuality : {"research", "pilot"},
     stressConditions : {"balanced"},
     temporalResolution : {"hour"}]

InitScenario ==
    /\ prog = "scenario"
    /\ pc = "scenario"
    /\ req \in ScenarioRequests
    /\ rng \in Streams
    /\ s = 0 /\ h = 0 /\ t = BigOfInt(0)
    /\ params = NoParams /\ culture = NoCulture /\ locals = NoLocals
    /\ point = NoPoint /\ data = <<>> /\ split = NoSplit
    /\ files = <<>> /\ response = 0
    /\ now = SameClock
    /\ csv = NoFile /\ sample = NoSample

\* the handler's scenario loop calls generateAdvancedScenarioData
ScenarioCall ==
    /\ prog = "scenario" /\ pc = "scenario"
    /\ s < req.scenarios
    /\ params' = HandlerScenarioParams(req, rng)
    /\ culture' = [biomass |-> HandlerScenarioParams(req, rng).initialBiomass,
                   cellConcentration |-> HandlerScenarioParams(req, rng).initialBiomass * 200,
                   nutrients |-> HandlerScenarioParams(req, rng).nutrientLevel,
                   totalProductivity |-> 0,
                   pH |-> HandlerScenarioParams(req, rng).basePH,
                   temp |-> HandlerScenarioParams(req, rng).baseTemp]
    /\ rng' = AdvanceN(rng, HandlerScenarioParamDraws(req, rng))
    /\ t' = BigOfInt(0)
    /\ pc' = "step"
    /\ UNCHANGED <<prog, now, csv, sample, req, s, h, locals, point, data, split, files, response>>

ScenarioTimeStep ==
    /\ prog = "scenario" /\ pc = "step"
    /\ InLoop(t, req.hoursPerScenario.double)
    /\ LET r == ScenarioStep(params, culture, s + 1, t,
                             ResolutionOf(req.temporalResolution), rng)
       IN  /\ culture' = r.culture
           /\ locals' = [lightIntensity |-> r.lightIntensity,
                         actualGrowthRate |-> r.actualGrowthRate,
                         mu |-> r.mu]
           /\ point' = r.dataPoint
           /\ data' = Append(data, [Scenario |-> r.dataPoint.Scenario,
                                    Time_h |-> r.dataPoint.Time_h])
    /\ rng' = AdvanceN(rng, ScenarioStepDraws(params))
    /\ t' = DoubleAdd(t, ResolutionOf(req.temporalResolution).double)
    /\ UNCHANGED <<prog, now, csv, sample, pc, req, s, h, params, split, files, response>>

\* generateAdvancedScenarioData returns; allData.push(...scenarioData)
ScenarioReturn ==
    /\ prog = "scenario" /\ pc = "step"
    /\ ~InLoop(t, req.hoursPerScenario.double)
    /\ s' = s + 1
    /\ pc' = "scenario"
    /\ UNCHANGED <<prog, now, csv, sample, t, req, rng, h, params, culture, locals, point, data, split, files, response>>

ScenarioAllData ==
    /\ prog = "scenario" /\ pc = "scenario"
    /\ s >= req.scenarios
    /\ pc' = "returned"
    /\ UNCHANGED <<prog, now, csv, sample, t, req, rng, s, h, params, culture, locals, point, data, split, files, response>>

\* ------------------------------------------------------------------------
\* part_000: the rest of the dataQuality-based handler (lines 893-990) and the
\* memory of the process.  The handler keeps every dataPoint of every
\* scenario in allData; when the heap is full V8 ends the process with a
\* fatal error, which no catch block sees.
\* ------------------------------------------------------------------------
\* dataPoints the heap holds
HeapRecords == 60

part000Files == <<"training_data.csv", "validation_data.csv", "test_data.csv", "complete_dataset.csv", "metadata.json">>

\* request bodies: the handler validates nothing
HeapRequests ==
    [scenarios : {1, 2},
     hoursPerScenario : {WholeHours(1), WholeHours(2), WholeHours(HeapRecords + 1)},
     dataQuality : {"industrial"},
     stressConditions : {"balanced"},
     temporalResolution : DOMAIN resolutionConfig \cup {"other"}]

InitScenarioHeap ==
    /\ prog = "scenario"
    /\ pc = "scenario"
    /\ req \in HeapRequests
    /\ rng \in Streams
    /\ s = 0 /\ h = 0 /\ t = BigOfInt(0)
    /\ params = NoParams /\ culture = NoCulture /\ locals = NoLocals
    /\ point = NoPoint /\ data = <<>> /\ split = NoSplit
    /\ files = <<>> /\ response = 0
    /\ now = SameClock
    /\ csv = NoFile /\ sample = NoSample

\* an iteration of the time loop whose dataPoint still fits
ScenarioTimeStepInHeap == Len(data) < HeapRecords /\ ScenarioTimeStep

\* data.push(dataPoint) with the heap full: the process is gone
ScenarioOutOfMemory ==
    /\ prog = "scenario" /\ pc = "step"
    /\ InLoop(t, req.hoursPerScenario.double)
    /\ Len(data) >= HeapRecords
    /\ pc' = "aborted"
    /\ UNCHANGED <<prog, now, csv, sample, t, req, rng, s, h, params, culture, locals, point, data, split, files, response>>

\* split, the four CSV files, metadata.json and res.json
ScenarioRespond ==
    /\ prog = "scenario" /\ pc = "returned"
    /\ files' = part000Files
    /\ response' = 200
    /\ pc' = "done"
    /\ UNCHANGED <<prog, now, csv, sample, t, req, rng, s, h, params, culture, locals, point, data, split>>

\* mkdirSync or a write throws: catch, status 500
ScenarioError ==
    /\ prog = "scenario" /\ pc = "returned"
    /\ \E written \in 0..(Len(part000Files) - 1) : files' = SubSeq(part000Files, 1, written)
    /\ response' = 500
    /\ pc' = "done"
    /\ UNCHANGED <<prog, now, csv, sample, t, req, rng, s, h, params, culture, locals, point, data, split>>

NextScenarioHeap ==
    \/ ScenarioCall \/ ScenarioTimeStepInHeap \/ ScenarioOutOfMemory \/ ScenarioReturn
    \/ ScenarioAllData \/ ScenarioRespond \/ ScenarioError

\* the handler has ended: res.json or the catch has answered, or the process
\* is gone; no step of NextScenarioHeap is enabled after that
Ended == pc \in {"done", "aborted"}
SpecScenarioHeap == InitScenarioHeap /\ [][NextScenarioHeap]_vars

\* ------------------------------------------------------------------------
\* part_000: generateAdvancedData (lines 20-363), the kinetic revision
\* ------------------------------------------------------------------------
\* scenarioParams; maxPAR and Ks_light in 1e-1, muMax and noiseLevel in 1e-5
KineticParams(config, g) ==
    LET o == StressDraws(config, g) - 1
    IN  [baseTemp       |-> 220000 + Draw(g, 0) * 130,
         basePh         |-> 70000 + Draw(g, 1) * 25,
         maxPAR         |-> 500 + (Draw(g, 2) * 35) \div 10,
         initialBiomass |-> 100 + Draw(g, 3) * 3,
         nutrientLevel  |-> 2000 + Draw(g, 4) * 8,
         lightRegime    |-> IF Draw(g, 5) > 400 THEN "continuous" ELSE "cyclic",
         stressCondition |-> IF Stressed(config, g)
                             THEN (IF Draw(g, 7) > 500 THEN "high_temp" ELSE "low_pH")
                             ELSE "normal",
         muMax          |-> 8000 + Draw(g, 7 + o) * 15,
         Ks_light       |-> 600 + (Draw(g, 8 + o) * 8) \div 10,
         Ks_nutrient    |-> 50 + (Draw(g, 9 + o) * 4) \div 10,
         Ki_biomass     |-> 8000 + Draw(g, 10 + o) * 22,
         tempOptimal    |-> 280000 + Draw(g, 11 + o) * 70,
         pHOptimal      |-> 80000 + Draw(g, 12 + o) * 15,
         noiseLevel     |-> config.noiseLevel]
KineticParamDraws(config, g) == 12 + StressDraws(config, g)

\* floor of the square root
RECURSIVE SqrtBetween(_, _, _)
SqrtBetween(x, lo, hi) ==
    IF hi - lo <= 1 THEN lo
    ELSE IF ((lo + hi) \div 2) * ((lo + hi) \div 2) <= x
         THEN SqrtBetween(x, (lo + hi) \div 2, hi)
         ELSE SqrtBetween(x, lo, (lo + hi) \div 2)
Sqrt(x) == SqrtBetween(x, 0, 46341)

\* lightIntensity in 1e-1; lit is lightIntensity > 0 as the doubles decide it
KineticLightEffect(p, lightIntensity, lit) ==
    IF ~lit THEN 50
    ELSE IF lightIntensity < 300 THEN (2 * ((lightIntensity * U) \div 300)) \div 10
    ELSE IF lightIntensity > 5000
         THEN 9000 - Min(4000, lightIntensity - 5000)
    ELSE Times((lightIntensity * U) \div (lightIntensity + p.Ks_light),
               U + (3 * Sin(lightIntensity * 10)) \div 10)

KineticTempEffect(p, currentTemp) ==
    LET tempDiff == Abs(currentTemp - p.tempOptimal)
    IN  IF currentTemp < 100000 \/ currentTemp > 420000 THEN 100
        ELSE IF currentTemp < 180000 \/ currentTemp > 380000 THEN 1500
        ELSE IF tempDiff < 20000 THEN (12 * Gauss(tempDiff, 35)) \div 10
        ELSE Gauss(tempDiff, 35)

KineticPHEffect(p, currentpH) ==
    LET pHDiff == Abs(currentpH - p.pHOptimal)
    IN  IF currentpH < 60000 \/ currentpH > 105000 THEN 100
        ELSE IF currentpH < 65000 \/ currentpH > 100000 THEN 2000
        ELSE IF currentpH >= 85000 /\ currentpH <= 95000
             THEN (13 * Gauss(pHDiff, 8)) \div 10
        ELSE Gauss(pHDiff, 8)

\* Math.pow(x, 1.5) with x = nutrients / (nutrients + Ks_nutrient)
KineticNutrientEffect(p, nutrients) ==
    LET x == (nutrients * U) \div (nutrients + p.Ks_nutrient)
    IN  (x * Sqrt(x * U)) \div U

KineticOxygenEffect(oxygenLevel) ==
    IF oxygenLevel > 20000 THEN Min(U, ((oxygenLevel - U) * U) \div 70000) ELSE 100

KineticCo2Effect(co2Level, lit) == IF lit THEN Min(U, (co2Level * U) \div 25000) ELSE U

\* the combined effect without the final Math.max(0.001, Math.min(1.0, .))
KineticCombinedEffectUnclamped(lit, lightEffect, tempEffect, pHEffect, nutrientEffect, densityInhibition, oxygenEffect, co2Effect) ==
    IF lit
    THEN Times(Times(Times(Times(Times(Times(lightEffect, tempEffect), pHEffect),
             nutrientEffect), densityInhibition), oxygenEffect), co2Effect)
    ELSE (5 * tempEffect) \div 1000
KineticCombinedEffect(lit, lightEffect, tempEffect, pHEffect, nutrientEffect, densityInhibition, oxygenEffect, co2Effect) ==
    Clamp(10, U,
          IF lit
          THEN Times(Times(Times(Times(Times(Times(lightEffect, tempEffect), pHEffect),
                   nutrientEffect), densityInhibition), oxygenEffect), co2Effect)
          ELSE (5 * tempEffect) \div 1000)

\* netGrowth = actualGrowthRate * biomass * 2.0 - 0.0005 * biomass, in 1e-4;
\* actualGrowthRate in 1e-5
KineticNetGrowth(biomass, actualGrowthRate) ==
    (2 * actualGrowthRate * biomass - 50 * biomass) \div 100000

KineticGrowthPhase(p, actualGrowthRate) ==
    IF 10 * actualGrowthRate > 7 * p.muMax THEN "exponential"
    ELSE IF 10 * actualGrowthRate > 3 * p.muMax THEN "linear"
    ELSE IF 10 * actualGrowthRate > p.muMax THEN "stationary"
    ELSE "decline"

\* One iteration of the hour loop.  The environment (light, temperature, pH,
\* nutrients, oxygen, CO2) is computed as in server.js; cellConcentration is
\* not assigned in the loop.
KineticStep(p, c, sc, hr, g) ==
    LET o == LightDraws(p, hr)
        lightIntensity == LightIntensity(p, hr, Draw(g, 0))
        lit == LightPositive(p, hr)
        currentTemp == CurrentTemp(p, hr, Draw(g, o))
        currentpH == CurrentPH(p, c.biomass, hr, Draw(g, o + 1))
        nutrients == Nutrients(c.nutrients, c.biomass)
        oxygenLevel == OxygenLevel(c.oxygenLevel, c.biomass, lit)
        co2Level == Co2Level(c.co2Level, c.biomass, lit, Draw(g, o + 2))
        lightEffect == KineticLightEffect(p, lightIntensity, lit)
        tempEffect == KineticTempEffect(p, currentTemp)
        pHEffect == KineticPHEffect(p, currentpH)
        nutrientEffect == KineticNutrientEffect(p, nutrients)
        densityInhibition == ExpNeg((c.biomass * U) \div p.Ki_biomass)
        combinedEffect ==
            KineticCombinedEffect(lit, lightEffect, tempEffect, pHEffect, nutrientEffect,
                                  densityInhibition, KineticOxygenEffect(oxygenLevel),
                                  KineticCo2Effect(co2Level, lit))
        mu == Times(p.muMax, combinedEffect)
        biologicalNoise == ((Draw(g, o + 3) - 500) * p.noiseLevel * 3) \div (RandRes * 10)
        actualGrowthRate == Max(100, mu + biologicalNoise)
        netGrowth == KineticNetGrowth(c.biomass, actualGrowthRate)
        biomass == Max(10, Min(c.biomass + netGrowth, p.Ki_biomass))
        instantProductivity == netGrowth * 24
        totalProductivity == c.totalProductivity + Max(0, instantProductivity)
        proteinContent == Clamp(200000, 600000,
                                300000 + 25 * nutrientEffect + 10 * tempEffect
                                + 50 * Draw(g, o + 6))
        stressFactor == U - Min(tempEffect, Min(pHEffect, nutrientEffect))
        lipidContent == Clamp(50000, 400000,
                              150000 + 20 * stressFactor + 50 * Draw(g, o + 7))
    IN  [culture |->
            [biomass           |-> biomass,
             cellConcentration |-> c.cellConcentration,
             currentpH         |-> currentpH,
             currentTemp       |-> currentTemp,
             nutrients         |-> nutrients,
             oxygenLevel       |-> oxygenLevel,
             co2Level          |-> co2Level,
             totalProductivity |-> totalProductivity,
             cumulativeBiomass |-> c.cumulativeBiomass + biomass],
         lightIntensity |-> lightIntensity,
         actualGrowthRate |-> actualGrowthRate,
         mu |-> mu,
         effects |-> [lightEffect |-> lightEffect,
                      tempEffect |-> tempEffect,
                      pHEffect |-> pHEffect,
                      nutrientEffect |-> nutrientEffect,
                      densityInhibition |-> densityInhibition,
                      oxygenEffect |-> KineticOxygenEffect(oxygenLevel),
                      co2Effect |-> KineticCo2Effect(co2Level, lit),
                      combinedEffect |-> combinedEffect],
         dataPoint |->
            [Scenario |-> sc,
             Time_h |-> TimeStamp(hr),
             Growth_Phase |-> KineticGrowthPhase(p, actualGrowthRate),
             pH |-> ToFixed(currentpH, 10),
             Temperature_C |-> ToFixed(currentTemp, 100),
             PAR_umol_m2_s |-> ToFixed(lightIntensity, 1),
             Dissolved_O2_mg_L |-> ToFixed(oxygenLevel, 100),
             CO2_percent |-> ToFixed(co2Level, 100),
             Growth_Rate_mu_h |-> ToFixed(actualGrowthRate, 1),
             Biomass_g_L |-> ToFixed(biomass, 1),
             Cell_Concentration_cells_mL |-> ToFixed(c.cellConcentration, 1),
             Nutrients_g_L |-> ToFixed(nutrients, 1),
             Instantaneous_Productivity_g_L_d |-> ToFixed(instantProductivity, 1),
             Cumulative_Productivity |-> ToFixed(totalProductivity, 10),
             Protein_Content_percent |-> ToFixed(proteinContent, 1000),
             Lipid_Content_percent |-> ToFixed(lipidContent, 1000),
             Carbohydrate_Content_percent |->
                 ToFixed(100 * U - proteinContent - lipidContent, 1000),
             Light_Regime |-> p.lightRegime,
             Stress_Condition |-> p.stressCondition,
             mu_Max_h |-> ToFixed(p.muMax, 10)]]
\* Math.random() calls of one iteration: light jitter (by day), temperature,
\* pH, CO2, biological noise, optical density, chlorophyll, protein, lipid
KineticStepDraws(p, hr) == LightDraws(p, hr) + 8

KineticRequests ==
    [scenarios : 1..MaxScenarios,
     hoursPerScenario : {24, LongHours},
     variabilityLevel : validVariability]

InitKinetic ==
    /\ prog = "kinetic"
    /\ pc = "scenario"
    /\ req \in KineticRequests
    /\ rng \in Streams
    /\ s = 1 /\ h = 0 /\ t = BigOfInt(0)
    /\ params = NoParams /\ culture = NoCulture /\ locals = NoLocals
    /\ point = NoPoint /\ data = <<>> /\ split = NoSplit
    /\ files = <<>> /\ response = 0
    /\ now = SameClock
    /\ csv = NoFile /\ sample = NoSample

KineticStartScenario ==
    /\ prog = "kinetic" /\ pc = "scenario"
    /\ s <= req.scenarios
    /\ LET config == ConfigOf(req.variabilityLevel)
           p == KineticParams(config, rng)
           g == AdvanceN(rng, KineticParamDraws(config, rng))
       IN  /\ params' = p
           /\ culture' = InitialCulture(p, g)
           /\ rng' = AdvanceN(g, InitialCultureDraws)
    /\ h' = 0
    /\ pc' = "hour"
    /\ UNCHANGED <<prog, now, csv, sample, t, req, s, locals, point, data, split, files, response>>

KineticHour ==
    /\ prog = "kinetic" /\ pc = "hour"
    /\ h < req.hoursPerScenario
    /\ LET r == KineticStep(params, culture, s, h, rng)
       IN  /\ culture' = r.culture
           /\ locals' = [lightIntensity |-> r.lightIntensity,
                         actualGrowthRate |-> r.actualGrowthRate,
                         mu |-> r.mu,
                         effects |-> r.effects]
           /\ point' = r.dataPoint
           /\ data' = Append(data, [Scenario |-> r.dataPoint.Scenario,
                                    Time_h |-> r.dataPoint.Time_h])
    /\ rng' = AdvanceN(rng, KineticStepDraws(params, h))
    /\ h' = h + 1
    /\ UNCHANGED <<prog, now, csv, sample, t, pc, req, s, params, split, files, response>>

KineticEndScenario ==
    /\ prog = "kinetic" /\ pc = "hour"
    /\ h >= req.hoursPerScenario
    /\ s' = s + 1
    /\ pc' = "scenario"
    /\ UNCHANGED <<prog, now, csv, sample, t, req, rng, h, params, culture, locals, point, data, split, files, response>>

KineticReturn ==
    /\ prog = "kinetic" /\ pc = "scenario"
    /\ s > req.scenarios
    /\ pc' = "returned"
    /\ UNCHANGED <<prog, now, csv, sample, t, req, rng, s, h, params, culture, locals, point, data, split, files, response>>

\* ------------------------------------------------------------------------
\* server.js: toCSV (lines 305-316) and GET /sample-data/:folder (443-488)
\* ------------------------------------------------------------------------
\* A cell of a record is a number, units / 10^scale, or a string, kept as its
\* characters.  Text is a sequence of one-character strings.
Number(units, scale) == [kind |-> "number", units |-> units, scale |-> scale, text |-> <<>>]
String(text) == [kind |-> "string", units |-> 0, scale |-> 0, text |-> text]
Undefined == [kind |-> "undefined", units |-> 0, scale |-> 0, text |-> <<>>]
NaN == [kind |-> "NaN", units |-> 0, scale |-> 0, text |-> <<>>]

\* the same number without trailing zero decimals
RECURSIVE Canon(_)
Canon(v) ==
    IF v.scale > 0 /\ v.units % 10 = 0 THEN Canon(Number(v.units \div 10, v.scale - 1))
    ELSE v

DigitChars == <<"0", "1", "2", "3", "4", "5", "6", "7", "8", "9">>
IsDigit(c) == \E d \in 1..10 : DigitChars[d] = c
DigitValue(c) == (CHOOSE d \in 1..10 : DigitChars[d] = c) - 1

RECURSIVE NatToChars(_)
NatToChars(n) ==
    IF n < 10 THEN <<DigitChars[n + 1]>>
    ELSE NatToChars(n \div 10) \o <<DigitChars[(n % 10) + 1]>>

\* the implicit String(value) of Array.prototype.join: a number prints in
\* decimal notation with no trailing zeros (values here have at most six
\* decimals, so the exponent notation is never used); a string prints as is
NumberToString(v) ==
    LET c == Canon(v)
        d == NatToChars(Abs(c.units))
        padded == IF Len(d) <= c.scale
                  THEN [i \in 1..(c.scale + 1 - Len(d)) |-> "0"] \o d
                  ELSE d
        whole == SubSeq(padded, 1, Len(padded) - c.scale)
        frac == SubSeq(padded, Len(padded) - c.scale + 1, Len(padded))
    IN  (IF c.units < 0 THEN <<"-">> ELSE <<>>)
        \o whole
        \o (IF c.scale > 0 THEN <<".">> \o frac ELSE <<>>)

CellToString(v) ==
    IF v.kind = "number" THEN NumberToString(v)
    ELSE IF v.kind = "string" THEN v.text
    ELSE IF v.kind = "NaN" THEN <<"N", "a", "N">>
    ELSE <<>>

\* Array.prototype.join(',')
RECURSIVE Join(_)
Join(cells) ==
    IF Len(cells) = 0 THEN <<>>
    ELSE IF Len(cells) = 1 THEN cells[1]
    ELSE cells[1] \o <<",">> \o Join(Tail(cells))

\* String.prototype.split(',')
RECURSIVE SplitFrom(_, _, _)
SplitFrom(line, from, at) ==
    IF at > Len(line) THEN <<SubSeq(line, from, Len(line))>>
    ELSE IF line[at] = "," THEN <<SubSeq(line, from, at - 1)>> \o SplitFrom(line, at + 1, at + 1)
    ELSE SplitFrom(line, from, at + 1)
SplitLine(line) == SplitFrom(line, 1, 1)

\* the columns of a dataPoint that the model carries, in the order of the
\* object literal
Columns ==
    <<<<"S", "c", "e", "n", "a", "r", "i", "o">>,
      <<"T", "i", "m", "e", "_", "h">>,
      <<"D", "a", "t", "e", "T", "i", "m", "e">>,
      <<"G", "r", "o", "w", "t", "h", "_", "P", "h", "a", "s", "e">>,
      <<"B", "i", "o", "m", "a", "s", "s", "_", "g", "_", "L">>>>

\* toCSV: the header line and one line per record; '' for an empty dataset.
\* The file is kept as its lines (no value holds a line break).
ToCSV(rows) ==
    IF Len(rows) = 0 THEN <<>>
    ELSE <<Join(Columns)>> \o [i \in 1..Len(rows) |-> Join([k \in 1..Len(rows[i]) |-> CellToString(rows[i][k])])]

\* number of digits of text from position p on
RECURSIVE LeadingDigits(_, _)
LeadingDigits(text, p) ==
    IF p <= Len(text) /\ IsDigit(text[p]) THEN 1 + LeadingDigits(text, p + 1) ELSE 0

RECURSIVE DigitsToNat(_)
DigitsToNat(digits) ==
    IF Len(digits) = 0 THEN 0
    ELSE DigitsToNat(SubSeq(digits, 1, Len(digits) - 1)) * 10 + DigitValue(digits[Len(digits)])

\* the decimal literal at the head of text: sign, digits, '.', digits
Literal(text) ==
    LET neg == Len(text) > 0 /\ text[1] = "-"
        p == IF neg THEN 2 ELSE 1
        n1 == LeadingDigits(text, p)
        dot == p + n1 <= Len(text) /\ text[p + n1] = "."
        n2 == IF dot THEN LeadingDigits(text, p + n1 + 1) ELSE 0
    IN  [neg |-> neg, digits |-> n1 + n2, decimals |-> n2,
         whole |-> SubSeq(text, p, p + n1 - 1),
         frac |-> SubSeq(text, p + n1 + 1, p + n1 + n2),
         length |-> (p - 1) + n1 + (IF dot THEN 1 + n2 ELSE 0)]

\* parseInt(value): the mutant reader that drops the decimals
ParseInt(text) ==
    LET l == Literal(text)
    IN  IF Len(l.whole) = 0 THEN NaN
        ELSE Number((IF l.neg THEN -1 ELSE 1) * DigitsToNat(l.whole), 0)
\* parseFloat(value): the longest numeric prefix
ParseFloat(text) ==
    LET l == Literal(text)
    IN  IF l.digits = 0 THEN NaN
        ELSE Canon(Number((IF l.neg THEN -1 ELSE 1) * DigitsToNat(l.whole \o l.frac),
                          l.decimals))

\* isNaN(value) of a string: Number('') is 0; otherwise the whole string has
\* to be a numeric literal
IsNaN(text) ==
    LET l == Literal(text)
    IN  Len(text) > 0 /\ ~(l.digits > 0 /\ l.length = Len(text))

\* row[header] = isNaN(value) ? value : parseFloat(value)
ReadCell(text) == IF IsNaN(text) THEN String(text) ELSE ParseFloat(text)

\* line.trim() is empty
Blank(line) == \A i \in 1..Len(line) : line[i] = " "

SampleLimit == 1000

\* GET /sample-data: the body of the answer for a file with these lines
SampleOf(file) ==
    LET lines == SelectSeq(file, LAMBDA line : ~Blank(line))
        headers == SplitLine(lines[1])
        sampleSize == Min(SampleLimit, Len(lines) - 1)
    IN  [data |-> [i \in 1..sampleSize |->
                      LET values == SplitLine(lines[i + 1])
                      IN  [k \in 1..Len(headers) |->
                              IF k <= Len(values) THEN ReadCell(values[k]) ELSE Undefined]],
         sampleSize |-> sampleSize,
         totalRows |-> Len(lines) - 1,
         headers |-> headers]

\* values of the columns, as the generator writes them
Phases == <<<<"l", "a", "g">>,
      <<"e", "x", "p", "o", "n", "e", "n", "t", "i", "a", "l">>,
      <<"s", "t", "a", "t", "i", "o", "n", "a", "r", "y">>,
      <<"d", "e", "c", "l", "i", "n", "e">>>>
BiomassSamples == <<Number(5, 2), Number(12345, 4), Number(2, 0), Number(1, 4), Number(52, 1), Number(305, 3), Number(6, 0)>>
\* DateTime of hour h of some day
IsoHour(hour) ==
    <<"2", "0", "2", "6", "-", "1", "1", "-", "0", "6", "T">>
    \o <<DigitChars[(hour \div 10) + 1], DigitChars[(hour % 10) + 1]>>
    \o <<":", "0", "0", ":", "0", "0", ".", "0", "0", "0", "Z">>

DatasetRow(i, seed, hours) ==
    <<Number(1 + (i - 1) \div hours, 0),
      Number((i - 1) % hours, 0),
      String(IsoHour(((i - 1) % hours) % 24)),
      String(Phases[((i + seed) % Len(Phases)) + 1]),
      BiomassSamples[((i * 3 + seed) % Len(BiomassSamples)) + 1]>>

\* datasets of scenarios * hoursPerScenario records that the handler accepts
DatasetShapes ==
    {[scenarios |-> 1, hours |-> 24], [scenarios |-> 1, hours |-> 25],
     [scenarios |-> 10, hours |-> 100], [scenarios |-> 11, hours |-> 91]}
DatasetSeeds == 0..9
Dataset(shape, seed) ==
    [i \in 1..(shape.scenarios * shape.hours) |-> DatasetRow(i, seed, shape.hours)]

InitSample ==
    /\ prog = "sample"
    /\ pc = "write"
    /\ \E shape \in DatasetShapes, seed \in DatasetSeeds :
          /\ data = Dataset(shape, seed)
          /\ req = [folder |-> seed, scenarios |-> shape.scenarios,
                    hoursPerScenario |-> shape.hours]
    /\ rng = [x |-> 0, mul |-> 1, inc |-> 0]
    /\ s = 0 /\ h = 0 /\ t = BigOfInt(0)
    /\ params = NoParams /\ culture = NoCulture /\ locals = NoLocals
    /\ point = NoPoint /\ split = NoSplit
    /\ files = <<>> /\ response = 0
    /\ now = SameClock
    /\ csv = NoFile /\ sample = NoSample

\* fs.writeFileSync(path.join(folder, 'complete_dataset.csv'), toCSV(data))
WriteComplete ==
    /\ prog = "sample" /\ pc = "write"
    /\ csv' = ToCSV(data)
    /\ files' = <<csvFiles[1]>>
    /\ pc' = "read"
    /\ UNCHANGED <<prog, now, sample, t, req, rng, s, h, params, culture, locals, point, data, split, response>>

\* GET /sample-data/:folder of a folder that holds no complete_dataset.csv
SampleNotFound ==
    /\ prog = "sample" /\ pc = "write"
    /\ csv = NoFile
    /\ response' = 404
    /\ pc' = "done"
    /\ UNCHANGED <<prog, now, csv, sample, t, req, rng, s, h, params, culture, locals, point, data, split, files>>

\* GET /sample-data/:folder of the folder just written
SampleData ==
    /\ prog = "sample" /\ pc = "read"
    /\ IF Len(SelectSeq(csv, LAMBDA line : ~Blank(line))) = 0
       THEN response' = 500 /\ sample' = sample
       ELSE response' = 200 /\ sample' = SampleOf(csv)
    /\ pc' = "done"
    /\ UNCHANGED <<prog, now, csv, t, req, rng, s, h, params, culture, locals, point, data, split, files>>

NextSample == WriteComplete \/ SampleNotFound \/ SampleData

SpecSample == InitSample /\ [][NextSample]_vars

\* ------------------------------------------------------------------------
\* part_004: generateScenarioData (lines 22-98) and POST /generate-dataset
\* (lines 125-187).  The records keep their identifying columns.
\* ------------------------------------------------------------------------
dataConfig == [scenarios |-> 50, hoursPerScenario |-> 240, totalDataPoints |-> 12000]

\* the handler's scenarioParams
Part004Params(g) ==
    [lightRegime     |-> IF Draw(g, 5) > 500 THEN "continuous" ELSE "cyclic",
     stressCondition |-> IF Draw(g, 6) > 800 THEN "high_temp"
                         ELSE IF Draw(g, 7) > 600 THEN "low_pH" ELSE "normal"]
Part004ParamDraws(g) == IF Draw(g, 6) > 800 THEN 7 ELSE 8
\* Math.random() calls of one hour: light (continuous only), temperature, pH,
\* growth noise, biomass noise, cell noise
Part004HourDraws(p) == IF p.lightRegime = "continuous" THEN 6 ELSE 5

part004Files == <<"training_data.csv", "validation_data.csv", "test_data.csv", "complete_dataset.csv">>

Part004Requests == [scenarios : {1, 2}, hoursPerScenario : {24, 240}]

InitPart004 ==
    /\ prog = "part004"
    /\ pc = "scenario"
    /\ req \in Part004Requests
    /\ rng \in Streams
    /\ s = 0 /\ h = 0 /\ t = BigOfInt(0)
    /\ params = NoParams /\ culture = NoCulture /\ locals = NoLocals
    /\ point = NoPoint /\ data = <<>> /\ split = NoSplit
    /\ files = <<>> /\ response = 0
    /\ now = SameClock
    /\ csv = NoFile /\ sample = NoSample

\* the scenario loop samples scenarioParams and calls generateScenarioData
Part004StartScenario ==
    /\ prog = "part004" /\ pc = "scenario"
    /\ s < req.scenarios
    /\ params' = Part004Params(rng)
    /\ rng' = AdvanceN(rng, Part004ParamDraws(rng))
    /\ h' = 0
    /\ pc' = "hour"
    /\ UNCHANGED <<prog, now, csv, sample, t, req, s, culture, locals, point, data, split, files, response>>

\* generateScenarioData: one iteration of `hour < dataConfig.hoursPerScenario`
Part004Hour ==
    /\ prog = "part004" /\ pc = "hour"
    /\ h < dataConfig.hoursPerScenario
    /\ point' = [Scenario |-> s, Hora |-> h]
    /\ data' = Append(data, [Scenario |-> s, Hora |-> h])
    /\ rng' = AdvanceN(rng, Part004HourDraws(params))
    /\ h' = h + 1
    /\ UNCHANGED <<prog, now, csv, sample, t, pc, req, s, params, culture, locals, split, files, response>>

\* generateScenarioData returns; allData.push(...scenarioData)
Part004EndScenario ==
    /\ prog = "part004" /\ pc = "hour"
    /\ h >= dataConfig.hoursPerScenario
    /\ s' = s + 1
    /\ pc' = "scenario"
    /\ UNCHANGED <<prog, now, csv, sample, t, req, rng, h, params, culture, locals, point, data, split, files, response>>

\* shuffle a copy, split, write the four files and answer with the stats
Part004Respond ==
    /\ prog = "part004" /\ pc = "scenario"
    /\ s >= req.scenarios
    /\ \E order \in Orders :
         LET shuffled == Reorder(data, order)
             trainSize == TrainSize(Len(shuffled))
             validSize == ValidSize(Len(shuffled))
         IN  split' = [train |-> Slice(shuffled, 0, trainSize),
                       valid |-> Slice(shuffled, trainSize, trainSize + validSize),
                       test |-> Slice(shuffled, trainSize + validSize, Len(shuffled)),
                       trainSize |-> trainSize,
                       validSize |-> validSize]
    /\ files' = part004Files
    /\ response' = 200
    /\ pc' = "done"
    /\ UNCHANGED <<prog, now, csv, sample, t, req, rng, s, h, params, culture, locals, point, data>>

\* mkdirSync or a write throws: catch, status 500
Part004Error ==
    /\ prog = "part004" /\ pc = "scenario"
    /\ s >= req.scenarios
    /\ \E written \in 0..(Len(part004Files) - 1) : files' = SubSeq(part004Files, 1, written)
    /\ response' = 500
    /\ pc' = "done"
    /\ UNCHANGED <<prog, now, csv, sample, t, req, rng, s, h, params, culture, locals, point, data, split>>

NextPart004 ==
    \/ Part004StartScenario \/ Part004Hour \/ Part004EndScenario
    \/ Part004Respond \/ Part004Error

SpecPart004 == InitPart004 /\ [][NextPart004]_vars

\* ------------------------------------------------------------------------
\* The output directory of POST /generate-dataset: server.js (379-388) and
\* part_001 (214-227).  Requests are handled one after the other by the one
\* JavaScript thread; Date.now() counts whole milliseconds.
\* ------------------------------------------------------------------------
\* accepted requests handled in a run
FolderRequests == 3
\* the last reading of the clock, in ms since the server started
ClockEnd == 3

\* path.join(datasetsDir, timestamp.toString()) in server.js,
\* path.join(datasetsDir, `chlorella_${timestamp}`) in part_001
FolderName(revision, timestamp) ==
    IF revision = "part001" THEN <<"generated_datasets", "chlorella_", timestamp>>
    ELSE <<"generated_datasets", "", timestamp>>

InitFolders ==
    /\ prog \in {"folders", "part001"}
    /\ pc = "idle"
    /\ req = [scenarios |-> 1, hoursPerScenario |-> 24, variabilityLevel |-> "medium"]
    /\ rng = [x |-> 0, mul |-> 1, inc |-> 0]
    /\ s = 0 /\ h = 0 /\ t = BigOfInt(0)
    /\ params = NoParams /\ culture = NoCulture /\ locals = NoLocals
    /\ point = NoPoint /\ data = <<>> /\ split = NoSplit
    /\ files = <<>> /\ response = 0
    /\ now = SameClock
    /\ csv = NoFile /\ sample = NoSample

\* a millisecond passes
ClockTick ==
    /\ prog \in {"folders", "part001"}
    /\ now.run < ClockEnd
    /\ now' = [now EXCEPT !.run = @ + 1]
    /\ UNCHANGED <<prog, csv, sample, t, pc, req, rng, s, h, params, culture, locals, point, data, split, files, response>>

\* const timestamp = Date.now(); fs.mkdirSync(folder, { recursive: true }):
\* an existing directory is no error
FolderMkdir ==
    /\ prog \in {"folders", "part001"} /\ pc = "idle"
    /\ s < FolderRequests
    /\ s' = s + 1
    /\ locals' = [timestamp |-> now.run, folder |-> FolderName(prog, now.run), written |-> 0]
    /\ response' = 0
    /\ pc' = "write"
    /\ UNCHANGED <<prog, now, csv, sample, t, req, rng, h, params, culture, point, data, split, files>>

\* fs.writeFileSync(path.join(folder, name), ...): creates or replaces the file
FolderWrite ==
    /\ prog \in {"folders", "part001"} /\ pc = "write"
    /\ locals.written < Len(csvFiles)
    /\ files' = Append(files, [folder |-> locals.folder,
                               name |-> csvFiles[locals.written + 1],
                               request |-> s])
    /\ locals' = [locals EXCEPT !.written = @ + 1]
    /\ UNCHANGED <<prog, now, csv, sample, t, pc, req, rng, s, h, params, culture, point, data, split, response>>

\* res.json: the handler returns and the next request can be taken
FolderRespond ==
    /\ prog \in {"folders", "part001"} /\ pc = "write"
    /\ locals.written = Len(csvFiles)
    /\ response' = 200
    /\ pc' = "idle"
    /\ UNCHANGED <<prog, now, csv, sample, t, req, rng, s, h, params, culture, locals, point, data, split, files>>

NextFolders == ClockTick \/ FolderMkdir \/ FolderWrite \/ FolderRespond

SpecFolders == InitFolders /\ [][NextFolders]_vars

\* ------------------------------------------------------------------------
\* server.js GET /download/:folder/:filename (lines 491-519).  A path is the
\* sequence of its segments below the root directory.  Express matches each
\* parameter against one segment of the URL and then decodes it, so a decoded
\* value holds several segments when the URL has %2F in it.
\* ------------------------------------------------------------------------
\* __dirname and datasetsDir = path.join(__dirname, 'generated_datasets')
dirname == <<"app">>
datasetsDir == dirname \o <<"generated_datasets">>

\* the files on the disk of the server
DiskFiles ==
    {datasetsDir \o <<"1700", "complete_dataset.csv">>,
     datasetsDir \o <<"1700", "training_data.csv">>,
     dirname \o <<"server.js">>,
     <<"etc", "passwd">>}

\* path.normalize: '.' is dropped, '..' removes the segment before it and is
\* dropped at the root
RECURSIVE Normalize(_, _)
Normalize(segments, done) ==
    IF segments = <<>> THEN done
    ELSE IF Head(segments) = "." THEN Normalize(Tail(segments), done)
    ELSE IF Head(segments) = ".."
         THEN Normalize(Tail(segments),
                        IF done = <<>> THEN done ELSE SubSeq(done, 1, Len(done) - 1))
    ELSE Normalize(Tail(segments), Append(done, Head(segments)))

\* path.join of absolute datasetsDir with the two parameters
PathJoin(dir, folder, filename) == Normalize(dir \o folder \o filename, <<>>)

\* decoded values of a route parameter: one or two segments
ParamSegments == {"..", ".", "1700", "complete_dataset.csv", "server.js", "etc", "passwd"}
ParamValues == {<<a>> : a \in ParamSegments} \cup {<<a, b>> : a \in {"..", "1700"}, b \in ParamSegments}

\* dir is a proper ancestor of path
Inside(path, dir) == Len(path) > Len(dir) /\ SubSeq(path, 1, Len(dir)) = dir

NoDownload == [file |-> <<>>]

InitDownload ==
    /\ prog = "download"
    /\ pc = "resolve"
    /\ req \in [folder : ParamValues, filename : ParamValues]
    /\ rng = [x |-> 0, mul |-> 1, inc |-> 0]
    /\ s = 0 /\ h = 0 /\ t = BigOfInt(0)
    /\ params = NoParams /\ culture = NoCulture /\ locals = NoLocals
    /\ point = NoPoint /\ data = <<>> /\ split = NoSplit
    /\ files = <<>> /\ response = 0
    /\ now = SameClock
    /\ csv = NoFile /\ sample = NoDownload

\* const filePath = path.join(datasetsDir, req.params.folder, req.params.filename)
DownloadResolve ==
    /\ prog = "download" /\ pc = "resolve"
    /\ locals' = [filePath |-> PathJoin(datasetsDir, req.folder, req.filename)]
    /\ pc' = "exists"
    /\ UNCHANGED <<prog, now, csv, sample, t, req, rng, s, h, params, culture, point, data, split, files, response>>

\* !fs.existsSync(filePath): 404
DownloadNotFound ==
    /\ prog = "download" /\ pc = "exists"
    /\ locals.filePath \notin DiskFiles
    /\ response' = 404
    /\ pc' = "done"
    /\ UNCHANGED <<prog, now, csv, sample, t, req, rng, s, h, params, culture, locals, point, data, split, files>>

\* res.download(filePath, ...): the file is sent
DownloadServe ==
    /\ prog = "download" /\ pc = "exists"
    /\ locals.filePath \in DiskFiles
    /\ sample' = [file |-> locals.filePath]
    /\ response' = 200
    /\ pc' = "done"
    /\ UNCHANGED <<prog, now, csv, t, req, rng, s, h, params, culture, locals, point, data, split, files>>

\* res.download fails before the headers are sent: 500 from the callback
DownloadError ==
    /\ prog = "download" /\ pc = "exists"
    /\ locals.filePath \in DiskFiles
    /\ response' = 500
    /\ pc' = "done"
    /\ UNCHANGED <<prog, now, csv, sample, t, req, rng, s, h, params, culture, locals, point, data, split, files>>

NextDownload == DownloadResolve \/ DownloadNotFound \/ DownloadServe \/ DownloadError

SpecDownload == InitDownload /\ [][NextDownload]_vars

NextServer ==
    \/ Reject \/ Accept \/ StartScenario \/ Hour \/ EndScenario \/ ReturnData
    \/ Split \/ Mkdir \/ WriteFile \/ WriteError \/ Respond

NextRealistic ==
    \/ RealisticStartScenario \/ RealisticHour \/ RealisticEndScenario \/ RealisticReturn

SpecServer == InitServer /\ [][NextServer]_vars

\* The handler is synchronous code that Node runs to completion: weak
\* fairness of NextServer.  A step of NextServer is enabled exactly while the
\* handler has not ended, so WF_vars(NextServer) is written out with
\* pc = "done" for ~ENABLED <<NextServer>>_vars.
Running == pc # "done"
SpecServerFair ==
    InitServer /\ [][NextServer]_vars /\ ([]<>(~Running) \/ []<><<NextServer>>_vars)

SpecRealistic == InitRealistic /\ [][NextRealistic]_vars

NextScenario == ScenarioCall \/ ScenarioTimeStep \/ ScenarioReturn \/ ScenarioAllData

SpecScenario == InitScenario /\ [][NextScenario]_vars

NextKinetic == KineticStartScenario \/ KineticHour \/ KineticEndScenario \/ KineticReturn

SpecKinetic == InitKinetic /\ [][NextKinetic]_vars

Init ==
    \/ InitServer \/ InitRealistic \/ InitScenario \/ InitKinetic \/ InitSample
    \/ InitPart004 \/ InitFolders \/ InitDownload

Next ==
    \/ NextServer \/ NextRealistic \/ NextScenario \/ NextKinetic \/ NextSample
    \/ NextPart004 \/ NextFolders \/ NextDownload

Spec == Init /\ [][Next]_vars

\* both revisions of generateAdvancedData: server.js and part_000
SpecAdvancedData ==
    (InitServer \/ InitKinetic) /\ [][NextServer \/ NextKinetic]_vars

\* the generators whose records carry Time_h from the loop variable:
\* server.js generateAdvancedData and part_000 generateAdvancedScenarioData
SpecTimeOrdered ==
    (InitServer \/ InitScenario) /\ [][NextServer \/ NextScenario]_vars

\* server.js run once and replayed with the same request and the same
\* Math.random() draws; the replay reads Date.now() at the same or a later ms
ReplayRequests ==
    [scenarios : {0, 1}, hoursPerScenario : {24}, variabilityLevel : {"medium"}]

InitReplay ==
    /\ prog = "server"
    /\ pc = "validate"
    /\ req \in ReplayRequests
    /\ rng \in Streams
    /\ s = 0 /\ h = 0 /\ t = BigOfInt(0)
    /\ params = NoParams /\ culture = NoCulture /\ locals = NoLocals
    /\ point = NoPoint /\ data = <<>> /\ split = NoSplit
    /\ files = <<>> /\ response = 0
    /\ now \in [run : {0}, replay : {0, 1}]
    /\ csv = NoFile /\ sample = NoSample

SpecReplay == InitReplay /\ [][NextServer]_vars

\* ------------------------------------------------------------------------
\* Properties
\* ------------------------------------------------------------------------
\* a record of the current scenario has been pushed by the hour loop
Recorded == pc = "hour" /\ h > 0
\* hour of the day of the last record pushed
RecordHourOfDay == (point.Time_h \div 100) % 24
\* x rounded up to a whole multiple of d, in multiples
Ceil(x, d) == (x + d - 1) \div d
\* records of scenario sc in data
RecordsOf(sc) == Cardinality({i \in 1..Len(data) : data[i].Scenario = sc})

\* C1: in server.js every culture state and every record has
\* 0 <= biomass <= Ki_biomass of its scenario.
C1_BiomassWithinCapacity ==
    (prog = "server" /\ pc = "hour") =>
        /\ 0 <= culture.biomass
        /\ culture.biomass <= params.Ki_biomass
        /\ (h > 0 => 0 <= point.Biomass_g_L /\ point.Biomass_g_L <= params.Ki_biomass)

\* the growth of an hour was cut at the carrying capacity
C1_CapReached ==
    prog = "server" /\ Recorded /\ culture.biomass = params.Ki_biomass
    /\ point.Biomass_g_L = params.Ki_biomass

\* C2: in server.js every record has 0 <= Growth_Rate_mu_h <= muMax * (1 + eps),
\* with eps taken as one tenth.
C2_GrowthRateWithinMuMax ==
    (prog = "server" /\ Recorded) =>
        /\ 0 <= point.Growth_Rate_mu_h
        /\ 10 * point.Growth_Rate_mu_h <= 11 * params.muMax

\* C3: in server.js pH stays in [6.0, 9.5], temperature in [15, 40] and
\* nutrients at or above 0.05 in every culture state.
C3_EnvironmentWithinLimits ==
    (prog = "server" /\ pc = "hour") =>
        /\ culture.currentpH >= 60000 /\ culture.currentpH <= 95000
        /\ culture.currentTemp >= 150000 /\ culture.currentTemp <= 400000
        /\ culture.nutrients >= 500

\* a heat-stressed culture held at 40 degrees by the clamp
C3_TemperatureClamped ==
    prog = "server" /\ Recorded /\ params.stressCondition = "high_temp"
    /\ culture.currentTemp = 400000

\* C4: every scenario yields exactly ceil(hours / dt) records: dt = 1 in
\* server.js, dt the configured resolution in generateAdvancedScenarioData.
C4_RecordCountIsCeiling ==
    /\ (prog = "server" /\ pc = "split") =>
           \A sc \in 1..req.scenarios : RecordsOf(sc) = req.hoursPerScenario
    /\ (prog = "scenario" /\ pc = "returned" /\ req.hoursPerScenario.tenThousandths > 0) =>
           \A sc \in 1..req.scenarios :
               RecordsOf(sc) = Ceil(req.hoursPerScenario.tenThousandths,
                                    ResolutionOf(req.temporalResolution).tenThousandths)

\* C5: within a scenario Cumulative_Productivity never decreases from one
\* step to the next, in server.js and in the part_000 revision.
C5_CumulativeProductivityMonotone ==
    [][(prog \in {"server", "kinetic"} /\ pc = "hour" /\ pc' = "hour" /\ h' = h + 1) =>
          /\ culture'.totalProductivity >= culture.totalProductivity
          /\ (h > 0 => point'.Cumulative_Productivity >= point.Cumulative_Productivity)]_vars

\* productivity has accumulated over several hours of the part_000 revision
C5_ProductivityAccumulated ==
    prog = "kinetic" /\ pc = "hour" /\ h >= 3
    /\ point.Cumulative_Productivity > 0
    /\ culture.totalProductivity > 0

\* C6: the reported protein, lipid and carbohydrate percentages (tenths of a
\* percent) sum to exactly 100.
C6_CompositionSumsTo100 ==
    (prog = "server" /\ Recorded) =>
        point.Protein_Content_percent + point.Lipid_Content_percent
        + point.Carbohydrate_Content_percent = 1000

\* C6 amended: the reported percentages sum to 100 within 0.1.
C6_CompositionSumsTo100Within01 ==
    (prog = "server" /\ Recorded) =>
        Abs(point.Protein_Content_percent + point.Lipid_Content_percent
            + point.Carbohydrate_Content_percent - 1000) <= 1

\* a record whose three roundings add up to 99.9
C6_RoundedSumOff ==
    prog = "server" /\ Recorded
    /\ point.Protein_Content_percent + point.Lipid_Content_percent
       + point.Carbohydrate_Content_percent = 999

\* C7: in server.js a cyclic scenario has lightIntensity exactly 0 at every
\* hour of the day outside [6, 18], on every day.
C7_CyclicNightIsDark ==
    (prog = "server" /\ Recorded /\ params.lightRegime = "cyclic"
     /\ RecordHourOfDay \notin 6..18) =>
        locals.lightIntensity = 0 /\ point.PAR_umol_m2_s = 0

\* a night hour of the second day of a cyclic scenario
C7_SecondNight ==
    prog = "server" /\ Recorded /\ params.lightRegime = "cyclic"
    /\ point.Time_h >= 2400 /\ RecordHourOfDay \notin 6..18
    /\ point.PAR_umol_m2_s = 0

C9_TimeOrdered ==
    (prog \in {"server", "scenario"} /\ pc \in {"scenario", "hour", "step", "split", "returned"}) =>
        \A i \in 1..Len(data) :
            /\ (i = 1 \/ data[i - 1].Scenario # data[i].Scenario) => data[i].Time_h = 0
            /\ i > 1 => data[i - 1].Scenario <= data[i].Scenario
            /\ (i > 1 /\ data[i - 1].Scenario = data[i].Scenario) =>
                   data[i - 1].Time_h < data[i].Time_h

\* two scenarios sampled every five minutes, returned in order
C9_TwoScenariosReturned ==
    prog = "scenario" /\ pc = "returned" /\ req.temporalResolution = "5min"
    /\ Len(data) > 20
    /\ data[1].Scenario = 1 /\ data[Len(data)].Scenario = 2
    /\ data[Len(data)].Time_h > 0

\* C10: the split of N records has train = floor(0.7 N), validation =
\* floor(0.15 N) and test = N - train - validation.
C10_SplitSizes ==
    (prog = "server" /\ split # NoSplit) =>
        /\ Len(split.train) = (7 * Len(data)) \div 10
        /\ Len(split.valid) = (15 * Len(data)) \div 100
        /\ Len(split.test) = Len(data) - Len(split.train) - Len(split.valid)

\* C11: a server.js request whose scenarios is outside [1, 100], whose
\* hoursPerScenario is outside [24, 480] or whose variabilityLevel is not one
\* of low/medium/high/extreme is answered 400 before any scenario is
\* simulated and before any directory or file is created.
InvalidRequest ==
    \/ req.scenarios < 1 \/ req.scenarios > 100
    \/ req.hoursPerScenario < 24 \/ req.hoursPerScenario > 480
    \/ req.variabilityLevel \notin {"low", "medium", "high", "extreme"}

C12_WriteFailureIsFinal ==
    [][prog = "server" =>
         /\ (pc = "write" /\ Len(files) < Len(csvFiles) /\ files' = files) =>
                (response' = 500 /\ pc' = "done")
         /\ response # 500]_vars

\* the third write failed: two files on disk, answer 500
C12_ThirdWriteFailed ==
    /\ prog = "server" /\ pc = "done" /\ response = 500
    /\ files = <<"complete_dataset.csv", "training_data.csv">>

\* C13: the simulator fails exactly when durationHours <= 0 or
\* timeStepHours <= 0: a call of generateAdvancedScenarioData with such an
\* input never returns a record list (s counts the calls that returned), and
\* a call with any other input is not stopped by an error.
C13_FailsOnNonPositiveInput ==
    prog = "scenario" =>
        IF \/ req.hoursPerScenario.tenThousandths <= 0
           \/ ResolutionOf(req.temporalResolution).tenThousandths <= 0
        THEN s = 0
        ELSE pc \in {"scenario", "step", "returned"}

\* C14: two runs of generateAdvancedData with the same scenario parameters,
\* the same duration and the same random draws produce identical records in
\* every field, DateTime included.  Every other field of the record is
\* HourStep of the parameters, culture state and draws the two runs share,
\* so the records agree when the DateTime this run wrote is the one its
\* replay writes for the same hour.
C14_ReplayWritesSameRecord ==
    (prog = "server" /\ Recorded) =>
        point.DateTime = DateTime(now.replay, point.Time_h \div 100)

\* C15: round trip: a dataset written by toCSV to complete_dataset.csv and
\* read back through /sample-data comes back with as many rows as were
\* written, each numeric field with the value that was serialized and each
\* categorical field with the same string.
C15_RoundTripAllRows ==
    (prog = "sample" /\ pc = "done" /\ response = 200) =>
        /\ Len(sample.data) = Len(data)
        /\ \A i \in 1..Len(sample.data) : sample.data[i] = data[i]

\* C15, amended: the reader returns the first min(1000, N) of the N rows
\* written and reports totalRows = N; in every row it returns, each numeric
\* field has the value that was serialized and each categorical field the
\* same string.
C15_RoundTripFirstThousand ==
    (prog = "sample" /\ pc = "done" /\ response = 200) =>
        /\ sample.headers = Columns
        /\ sample.totalRows = Len(data)
        /\ sample.sampleSize = Min(SampleLimit, Len(data))
        /\ Len(sample.data) = sample.sampleSize
        /\ \A i \in 1..Len(sample.data) : sample.data[i] = data[i]

\* 1001 rows written, 1000 read back, the first with a four-decimal biomass
C15_SampleOfLargerDataset ==
    /\ prog = "sample" /\ pc = "done" /\ response = 200
    /\ Len(data) = SampleLimit + 1
    /\ Len(sample.data) = SampleLimit
    /\ data[1][5] = Number(12345, 4) /\ sample.data[1][5] = Number(12345, 4)
    /\ data[1][4].kind = "string" /\ sample.data[1][4] = data[1][4]

\* C16: in server.js, whenever lightIntensity is 0 the growth rate applied to
\* the biomass in that step does not exceed a tiny residual value.  The
\* residual is taken generously as 0.005 per hour, the dark factor of the
\* part_000 revision applied to a muMax of 1 (rates are in 1e-5 per hour).
C16_NoGrowthInDarkness ==
    (prog = "server" /\ Recorded /\ locals.lightIntensity = 0) =>
        locals.actualGrowthRate <= 500

\* C17: in the part_000 revision of generateAdvancedData the reported cell
\* concentration is the biomass of the same record times a cells-per-gram
\* factor: with the factor of line 57, 1.5e6 to 2.5e6 cells/mL per g/L,
\* Cell_Concentration_cells_mL lies between 1.5e6 and 2.5e6 times Biomass_g_L
\* (biomass in 1e-4 g/L).
C17_CellsFollowBiomass ==
    (prog = "kinetic" /\ Recorded) =>
        /\ point.Cell_Concentration_cells_mL >= point.Biomass_g_L * 150
        /\ point.Cell_Concentration_cells_mL <= point.Biomass_g_L * 250

\* C18: in the part_000 revision of generateAdvancedData each growth
\* limitation factor (light, temperature, pH, nutrient, density, oxygen, CO2)
\* lies in [0, 1] at every step (factors in 1e-4).
C18_FactorsWithinUnit ==
    (prog = "kinetic" /\ Recorded) =>
        \A f \in {"lightEffect", "tempEffect", "pHEffect", "nutrientEffect",
                  "densityInhibition", "oxygenEffect", "co2Effect"} :
            locals.effects[f] >= 0 /\ locals.effects[f] <= U

\* C18, amended: the light, nutrient, density, oxygen and CO2 factors lie in
\* [0, 1]; the temperature factor lies in [0, 1.2] and the pH factor in
\* [0, 1.3] (the code's bonuses near the optimum); the combined effect that
\* multiplies muMax lies in [0.001, 1].
C18_FactorsWithinBonus ==
    (prog = "kinetic" /\ Recorded) =>
        /\ \A f \in {"lightEffect", "nutrientEffect", "densityInhibition",
                     "oxygenEffect", "co2Effect"} :
               locals.effects[f] >= 0 /\ locals.effects[f] <= U
        /\ locals.effects.tempEffect >= 0 /\ 10 * locals.effects.tempEffect <= 12 * U
        /\ locals.effects.pHEffect >= 0 /\ 10 * locals.effects.pHEffect <= 13 * U
        /\ 1000 * locals.effects.combinedEffect >= U
        /\ locals.effects.combinedEffect <= U

\* a lit step at a temperature within the bonus range of the optimum
C18_TemperatureBonus ==
    /\ prog = "kinetic" /\ Recorded /\ locals.lightIntensity > 0
    /\ locals.effects.tempEffect > U
    /\ locals.effects.combinedEffect <= U

\* C19: every Biomass_g_L reported by generateAdvancedScenarioData lies in
\* [0, Ki_biomass] with Ki_biomass = 4, measurement noise included
\* (Biomass_g_L is in units of 10^-precision g/L).
C19_ScenarioBiomassWithinKi ==
    (prog = "scenario" /\ point # NoPoint) =>
        /\ point.Biomass_g_L >= 0
        /\ point.Biomass_g_L * Pow10(4 - params.precision) <= 4 * U

\* C20: in the /generate-dataset handler of part_004 each scenario yields as
\* many records as the hoursPerScenario of the request body, and the dataset
\* holds scenarios * hoursPerScenario records.
C20_RecordsPerRequestedHours ==
    (prog = "part004" /\ pc = "done" /\ response = 200) =>
        /\ \A sc \in 0..(req.scenarios - 1) : RecordsOf(sc) = req.hoursPerScenario
        /\ Len(data) = req.scenarios * req.hoursPerScenario


\* ------------------------------------------------------------------------
\* C21: the first record of a scenario (Time_h = 0) reports a biomass that is
\* at least the scenario's initialBiomass and at most initialBiomass grown by
\* the first step's rate: initialBiomass <= Biomass(0) <=
\* initialBiomass * (1 + actualGrowthRate(0)).
\* ------------------------------------------------------------------------
FirstRecord == prog = "server" /\ pc = "hour" /\ h = 1 /\ point # NoPoint /\ point.Scenario = s

GrowthPhases == {"lag", "exponential", "linear", "stationary", "decline"}

C22_PhaseIsALabel ==
    (prog = "server" /\ point # NoPoint) => point.Growth_Phase \in GrowthPhases

C22_PhaseFromRateAlone ==
    [][(/\ prog = "server" /\ pc = "hour" /\ pc' = "hour"
        /\ h >= 1 /\ h' = h + 1
        /\ point.Scenario = s
        /\ locals'.actualGrowthRate * params.muMax = locals.actualGrowthRate * params'.muMax)
       => point'.Growth_Phase = point.Growth_Phase]_vars


\* ------------------------------------------------------------------------
\* C23: at the start of every scenario the culture state is initialised from
\* that scenario's own parameters: biomass = initialBiomass, pH = basePh,
\* temperature = baseTemp, nutrients = nutrientLevel and cumulative
\* productivity = 0, whatever the previous scenario left behind.
\* ------------------------------------------------------------------------
ScenarioStarted == prog = "server" /\ pc = "hour" /\ h = 0

C23_CultureReinitialised ==
    ScenarioStarted =>
        /\ culture.biomass = params.initialBiomass
        /\ culture.currentpH = params.basePh
        /\ culture.currentTemp = params.baseTemp
        /\ culture.nutrients = params.nutrientLevel
        /\ culture.totalProductivity = 0
        /\ culture.cumulativeBiomass = params.initialBiomass

\* scenario 2 starts after scenario 1 has grown and accumulated productivity
C23_SecondScenarioStarted ==
    /\ ScenarioStarted
    /\ s = 2
    /\ point # NoPoint /\ point.Scenario = 1
    /\ point.Cumulative_Productivity > 0
    /\ point.Biomass_g_L # params.initialBiomass


\* ------------------------------------------------------------------------
\* C24: no step of generateAdvancedData divides by zero: biomass is strictly
\* positive, nutrients + Ks_nutrient and lightIntensity + Ks_light are
\* strictly positive, every division the step evaluates has a non-zero
\* divisor, and the efficiency terms are not divided (or are floored) when
\* lightIntensity is 0.
\* ------------------------------------------------------------------------
C24_NoDivisionByZero ==
    (prog = "server" /\ point # NoPoint) =>
        /\ culture.biomass > 0
        /\ locals.divisions.nutrientEffect.divisor > 0
        /\ locals.divisions.lightEffect.divisor > 0
        /\ \A d \in DOMAIN locals.divisions :
              locals.divisions[d].evaluated => locals.divisions[d].divisor # 0
        /\ locals.divisions.Light_Use_Efficiency.divisor >= 10

\* a night hour of a cyclic scenario: lightIntensity is 0 and the guarded
\* divisions are skipped
C24_NightStep ==
    /\ prog = "server" /\ point # NoPoint
    /\ params.lightRegime = "cyclic"
    /\ locals.lightIntensity = 0
    /\ ~locals.divisions.photosyntheticEfficiency.evaluated
    /\ ~locals.divisions.specificLightUptake.evaluated
    /\ locals.divisions.Light_Use_Efficiency.divisor = 10


\* ------------------------------------------------------------------------
\* C25: in the /generate-dataset handler of server.js no output file is
\* written before every scenario has been simulated and the split computed,
\* and the success response is sent only after all four CSV files have been
\* written.
\* ------------------------------------------------------------------------
C25_WritesAfterComputeResponseAfterWrites ==
    prog = "server" =>
        /\ files # <<>> =>
              /\ s > req.scenarios
              /\ Len(data) = req.scenarios * req.hoursPerScenario
              /\ split.trainSize + split.validSize + Len(split.test) = Len(data)
              /\ Len(split.train) = split.trainSize
        /\ response = 200 => files = csvFiles

\* a successful request of two scenarios: all four files, then 200
C25_SuccessAfterFourFiles ==
    /\ prog = "server" /\ pc = "done"
    /\ req.scenarios = 2
    /\ response = 200
    /\ Len(files) = 4


\* ------------------------------------------------------------------------
\* C26: the shuffle for the split leaves the generated dataset unchanged:
\* the rows written to complete_dataset.csv (toCSV(data) at the first write)
\* are in generation order, scenario ascending and Time_h ascending within a
\* scenario.
\* ------------------------------------------------------------------------
GenerationOrder(rows) ==
    \A i \in 2..Len(rows) :
        \/ rows[i - 1].Scenario < rows[i].Scenario
        \/ rows[i - 1].Scenario = rows[i].Scenario /\ rows[i - 1].Time_h < rows[i].Time_h

C26_CompleteDatasetInGenerationOrder ==
    (prog = "server" /\ Len(files) >= 1 /\ files[1] = "complete_dataset.csv") =>
        GenerationOrder(data)


\* ------------------------------------------------------------------------
\* C27: every request to POST /generate-dataset of server.js receives exactly
\* one HTTP response on every path (400, 500 or 200): the handler ends if and
\* only if a response has been sent, a response once sent is never followed
\* by another, and a response is eventually sent.
\* ------------------------------------------------------------------------
C27_ExactlyOneResponse ==
    /\ [](prog = "server" => /\ response \in {0, 200, 400, 500}
                             /\ response # 0 <=> pc = "done")
    /\ [][prog = "server" /\ response # 0 => response' = response /\ pc' = pc]_vars
    /\ <>(prog = "server" => response # 0)

\* the directory cannot be created after the split: the outer catch answers 500
C27_ThrownErrorAnswered ==
    /\ prog = "server" /\ pc = "done"
    /\ response = 500
    /\ split # NoSplit
    /\ files = <<>>


\* ------------------------------------------------------------------------
\* C28: two distinct accepted /generate-dataset requests never write their CSV
\* files into the same output directory: no file written by one request lies
\* in the folder of a file written by another.
\* ------------------------------------------------------------------------
C28_FoldersArePerRequest ==
    (prog \in {"folders", "part001"}) =>
        \A i, j \in 1..Len(files) :
            files[i].folder = files[j].folder => files[i].request = files[j].request


\* ------------------------------------------------------------------------
\* C29: for every folder and filename parameter, GET /download of server.js
\* only ever serves a file located inside the generated_datasets directory.
\* ------------------------------------------------------------------------
C29_ServedFileInsideDatasets ==
    (prog = "download" /\ response = 200) => Inside(sample.file, datasetsDir)


\* ------------------------------------------------------------------------
\* C30: for every request body the dataQuality-based handler of part_000
\* accepts, the generation terminates: every iteration of the time loop of
\* generateAdvancedScenarioData advances t by a strictly positive step, and a
\* response is eventually sent.
\* ------------------------------------------------------------------------
C30_GenerationTerminates ==
    prog = "scenario" =>
        /\ pc = "step" => BigLess(t, DoubleAdd(t, ResolutionOf(req.temporalResolution).double))
        /\ Ended => response # 0

====
